---- MODULE Spec2Model ----
(***************************************************************************)
(* The QR pairing orchestrator of FlutterWiseDevicesController             *)
(* (src/src/sidebar/devices/controller.ts).                                *)
(*                                                                         *)
(* Every connectByQrCode invocation is a call c.  A call is an async       *)
(* function: it runs synchronously from one await to the next, and at      *)
(* every await on an external process, the file system or a timer any      *)
(* other call, an external cancelQrPairing or the passing of time may      *)
(* interleave.  pc[c] names the await the call is suspended at.  The       *)
(* session object created by call c is identified with c; when the call    *)
(* has returned nothing refers to that object any more, and c stands for   *)
(* the next invocation.  MaxCalls bounds the calls that overlap, not the    *)
(* calls that are made.                                                    *)
(***************************************************************************)
EXTENDS Integers, Sequences, FiniteSets, TLC

\* ---------------------------------------------------------------- bounds
MaxCalls == 2     \* connectByQrCode invocations in flight at once
TickMs == 30000   \* milliseconds by which the clock is seen to advance
MaxListing == 2   \* lines of one `adb mdns services` output
MaxDeviceLines == 2   \* lines after the header of one `adb devices -l` output
MaxMdnsLines == 2     \* lines of the text of one `adb mdns services` output
MaxPosts == 3     \* postState calls in flight at one time

\* ------------------------------------------------------ program constants
ADB_TLS_PAIRING_SERVICE == "_adb-tls-pairing._tcp"
ADB_TLS_CONNECT_SERVICE == "_adb-tls-connect._tcp"
QR_SCAN_TIMEOUT_MS == 90000
CONNECT_DISCOVERY_TIMEOUT_MS == 20000
POLL_INTERVAL_MS == 1000

Calls == 1..MaxCalls
NoSession == 0
Undefined == <<>>

\* ------------------------------------------------------------ input sets
\* The credentials randomFromAlphabet draws for the session of call c.  They
\* are only ever compared for equality; sessions live at the same time are
\* taken to have drawn different ones.
\* Strings the code builds or parses are tuples of their parts; the undefined
\* value is the empty tuple.
NameOf(c) == <<"studio-", c>>
CodeOf(c) == <<"code-", c>>

\* What `adb mdns services` may list, one line already split on whitespace:
\* the pairing service a phone advertises after scanning the QR code of call
\* c (each at an endpoint of its own), and the connect services of two devices.
PairingEndpointOf(c) == <<"phone", 37000 + c>>
ConnectEndpoints == { <<"h1", 5555>>, <<"h2", 5555>> }
ServiceLines ==
  { <<NameOf(c), ADB_TLS_PAIRING_SERVICE, PairingEndpointOf(c)>> : c \in Calls }
    \cup { << <<"adb-device">>, ADB_TLS_CONNECT_SERVICE, e >> : e \in ConnectEndpoints }

RECURSIVE SeqsUpTo(_, _)
SeqsUpTo(S, n) ==
  IF n = 0 THEN { <<>> }
  ELSE LET shorter == SeqsUpTo(S, n - 1)
       IN  shorter \cup { Append(q, x) : q \in shorter, x \in S }

\* Results of execCmd(adb, ["mdns", "services"]).
MdnsResults ==
  { [code |-> 1, stdout |-> <<>>] }
    \cup { [code |-> 0, stdout |-> l] : l \in SeqsUpTo(ServiceLines, MaxListing) }

\* Exit codes of execCmd.
ExitCodes == {0, 1}

\* ----------------------------------------------------------------- state
VARIABLES
  pc,         \* pc[c]: the await call c is suspended at
  qrSession,  \* this.qrSession: the held session, or NoSession
  qrPairing,  \* this.qrPairing: <<>> when undefined, else <<state>>
  cancelled,  \* cancelled[c]: session.cancelled of the session of call c
  loc,        \* loc[c]: the locals of call c
  hist,       \* hist[c]: what call c has done so far (observation only)
  fired,      \* onDidChangeEmitter.fire() calls made by the last step
  probe,      \* the last evaluation of a function that keeps no state:
              \* its name, its arguments and its result
  view,       \* the provider's this.view: <<>> when undefined, else
              \* <<[received |-> the last message posted to the webview]>>
  posting     \* the number of postState calls suspended in getViewModel

vars == <<pc, qrSession, qrPairing, cancelled, loc, hist, fired, probe, view, posting>>

NoProbe == [fn |-> "none"]

State ==
  [ pc |-> pc, qrSession |-> qrSession, qrPairing |-> qrPairing,
    cancelled |-> cancelled, loc |-> loc, hist |-> hist, fired |-> fired ]

\* The state after a handler of the controller has run. Every fire() calls
\* the listener the view provider subscribed in its constructor, and the
\* listener calls postState: without a view postState returns at once,
\* otherwise it is suspended in getViewModel when the handler yields.
Becomes(s) ==
  /\ pc' = s.pc
  /\ qrSession' = s.qrSession
  /\ qrPairing' = s.qrPairing
  /\ cancelled' = s.cancelled
  /\ loc' = s.loc
  /\ hist' = s.hist
  /\ fired' = s.fired
  /\ probe' = probe
  /\ view' = view
  /\ view # <<>> => posting + s.fired <= MaxPosts
  /\ posting' = IF view = <<>> THEN posting ELSE posting + s.fired

InitLoc ==
  [ pairServiceName |-> Undefined, pairCode |-> Undefined,
    knownConnectEndpoints |-> {},
    elapsed |-> 0,      \* Date.now() - startedAt of the running poll loop
    sleepLeft |-> 0,    \* what is left of the running sleep(1000)
    pairingEndpoint |-> Undefined, connectEndpoint |-> Undefined ]

InitHist ==
  [ invokedWhileActive |-> FALSE,  \* a session was active when the call was invoked
                                   \* (kept until the call publishes its session)
    created |-> FALSE,             \* the call has created its session
    superseded |-> FALSE,          \* a newer session has been created since
    pairArgs |-> <<>>,             \* the `adb pair` invocations: <<endpoint, code>>
    connectDiscovery |-> FALSE,    \* waitForConnectEndpoint has called discovery
    connectVia |-> "none",         \* the listing that resolved the connect endpoint:
                                   \* "fresh" (before the deadline) or "final"
    connectArgs |-> <<>>,          \* the `adb connect` invocations: endpoint
    shown |-> {},                  \* messages shown to the user
    age |-> 0,                     \* Date.now() - the time the session was created,
                                   \* up to CONNECT_DISCOVERY_TIMEOUT_MS
    discoveryFailed |-> FALSE ]    \* the last step was a poll of the call whose
                                   \* discovery call exited non-zero

Init ==
  /\ pc = [c \in Calls |-> "idle"]
  /\ qrSession = NoSession
  /\ qrPairing = <<>>
  /\ cancelled = [c \in Calls |-> FALSE]
  /\ loc = [c \in Calls |-> InitLoc]
  /\ hist = [c \in Calls |-> InitHist]
  /\ fired = 0
  /\ probe = NoProbe
  /\ view = <<>>
  /\ posting = 0

\* The state a handler starts from: no notification fired yet in this step,
\* and the calls that returned in the step before are gone (their locals,
\* their session object and what was observed of them).
Enter ==
  [ State EXCEPT
      !.fired = 0,
      !.pc = [c \in Calls |-> IF pc[c] = "done" THEN "idle" ELSE pc[c]],
      !.cancelled = [c \in Calls |-> IF pc[c] = "done" THEN FALSE ELSE cancelled[c]],
      !.loc = [c \in Calls |-> IF pc[c] = "done" THEN InitLoc ELSE loc[c]],
      !.hist = [c \in Calls |-> IF pc[c] = "done" THEN InitHist
                                ELSE [hist[c] EXCEPT !.discoveryFailed = FALSE]] ]

\* ------------------------------------------------ service discovery reader
\* String.prototype.includes on the service types of the model: a type
\* contains a marker exactly when it is that marker.
Includes(serviceType, marker) == serviceType = marker

parseMdnsServices_ExactlyThree(stdout) ==
  LET kept == SelectSeq(stdout, LAMBDA parts : Len(parts) = 3)
  IN  [ i \in 1..Len(kept) |->
          [ instance |-> kept[i][1], serviceType |-> kept[i][2],
            endpoint |-> kept[i][3] ] ]

\* parseMdnsServices: one record per line with at least three tokens.
parseMdnsServices(stdout) ==
  LET kept == SelectSeq(stdout, LAMBDA parts : Len(parts) >= 3)
  IN  [ i \in 1..Len(kept) |->
          [ instance |-> kept[i][1], serviceType |-> kept[i][2],
            endpoint |-> kept[i][3] ] ]

listMdnsServices_IgnoresExitCode(result) ==
  parseMdnsServices(result.stdout)

\* listMdnsServices: a non-zero exit is an empty listing.
listMdnsServices(result) ==
  IF result.code # 0 THEN <<>> ELSE parseMdnsServices(result.stdout)

\* Array.prototype.find: <<>> when nothing matches, else <<first match>>.
\* `hits` are the elements that pass the test, in order.
Find(hits) ==
  IF hits = <<>> THEN <<>> ELSE <<hits[1]>>

connectServicesOf(services) ==
  SelectSeq(services, LAMBDA sv : Includes(sv.serviceType, ADB_TLS_CONNECT_SERVICE))

\* Math.ceil(a / b) for b > 0.
Ceil(a, b) == -((-a) \div b)

Max(a, b) == IF a >= b THEN a ELSE b

Min(a, b) == IF a <= b THEN a ELSE b

\* ----------------------------------------------- controller primitives
\* Every operator below maps a state record to the state record after the
\* code it models has run.

refresh(s) == [s EXCEPT !.fired = @ + 1]

showMessage(s, c, text) == [s EXCEPT !.hist[c].shown = @ \cup {text}]

isQrSessionActive_FlagOnly(s, c) == s.hist[c].created /\ ~s.cancelled[c]

isQrSessionActive(s, c) == s.qrSession = c /\ ~s.cancelled[c]

setQrPairingState(s, state) == refresh([s EXCEPT !.qrPairing = <<state>>])

updateQrStatus_Silent(s, statusMessage) ==
  IF s.qrPairing = <<>> THEN s
  ELSE [s EXCEPT !.qrPairing =
          << [s.qrPairing[1] EXCEPT !.statusMessage = statusMessage] >>]

updateQrStatus_AlwaysNotifies(s, statusMessage) ==
  IF s.qrPairing = <<>> THEN refresh(s)
  ELSE refresh([s EXCEPT !.qrPairing =
                  << [s.qrPairing[1] EXCEPT !.statusMessage = statusMessage] >>])

updateQrStatus(s, statusMessage) ==
  IF s.qrPairing = <<>> THEN s
  ELSE refresh([s EXCEPT !.qrPairing =
                  << [s.qrPairing[1] EXCEPT !.statusMessage = statusMessage] >>])

clearQrPairingState(s) == refresh([s EXCEPT !.qrPairing = <<>>])

cancelQrPairing_FlagOnly(s) ==
  IF s.qrSession # NoSession THEN [s EXCEPT !.cancelled[s.qrSession] = TRUE] ELSE s

cancelQrPairing(s) ==
  clearQrPairingState(
    IF s.qrSession # NoSession
      THEN [s EXCEPT !.cancelled[s.qrSession] = TRUE]
      ELSE s)

Finally_ReleasesAny(s, c) == [s EXCEPT !.qrSession = NoSession, !.pc[c] = "done"]

Finally_KeepsSession(s, c) == [s EXCEPT !.pc[c] = "done"]

\* The finally block of connectByQrCode, and the return.
Finally(s, c) ==
  [s EXCEPT !.qrSession = IF @ = c THEN NoSession ELSE @, !.pc[c] = "done"]

\* Status messages: the text and, where the code interpolates one, the value.
Status(text, n, endpoint) == [text |-> text, n |-> n, endpoint |-> endpoint]


\* ------------------------------------------------------------- messages
MSG_TOOL_MISSING == "adb not found in PATH"
MSG_SERVER_FAILED == "Failed to start adb server"
MSG_TIMED_OUT == "QR pairing timed out. Scan the QR code again and retry."
MSG_PAIR_FAILED == "adb pair failed"
MSG_PAIR_OK == "Pairing succeeded."
MSG_PAIRED == "Device paired. If it is not connected yet, tap Refresh or use Connect by IP."
MSG_CONNECT_FAILED == "adb connect failed"
MSG_CONNECT_OK == "Connected to"

ST_OPEN == "Open Android Wireless debugging and scan this QR code to start pairing."
ST_WAITING == "Waiting for phone scan..."
ST_DETECTED == "QR scan detected. Pairing with device..."
ST_PAIRED == "Pairing successful. Waiting for connection endpoint..."
ST_CONNECTING == "Connecting to"

\* ------------------------------------------------- connectByQrCode, by await
\* runAdbConnect up to its first await (resolveAdbPath).
runAdbConnect(s, c, endpoint) ==
  [s EXCEPT !.pc[c] = "connectResolve", !.loc[c].connectEndpoint = endpoint]

\* connectByQrCode after waitForConnectEndpoint has returned connectEndpoint.
afterWaitForConnectEndpoint(s, c, connectEndpoint) ==
  IF ~isQrSessionActive(s, c) THEN Finally(s, c)
  ELSE IF connectEndpoint = Undefined
    THEN Finally(refresh(clearQrPairingState(showMessage(s, c, MSG_PAIRED))), c)
  ELSE runAdbConnect(
         updateQrStatus(s, Status(ST_CONNECTING, 0, connectEndpoint)),
         c, connectEndpoint)

\* waitForConnectEndpoint returns (startedAt goes out of scope), the caller resumes.
returnConnectEndpoint(s, c, connectEndpoint) ==
  afterWaitForConnectEndpoint([s EXCEPT !.loc[c].elapsed = 0], c, connectEndpoint)

\* waitForConnectEndpoint from the loop condition to its next await.
waitForConnectEndpoint_NoDeadline(s, c, timeoutMs) ==
  IF ~isQrSessionActive(s, c)
    THEN returnConnectEndpoint(s, c, Undefined)
    ELSE [s EXCEPT !.pc[c] = "connectPoll", !.hist[c].connectDiscovery = TRUE]

waitForConnectEndpoint(s, c, timeoutMs) ==
  IF s.loc[c].elapsed < timeoutMs
    THEN IF ~isQrSessionActive(s, c)
           THEN returnConnectEndpoint(s, c, Undefined)
           ELSE [s EXCEPT !.pc[c] = "connectPoll", !.hist[c].connectDiscovery = TRUE]
    ELSE IF ~isQrSessionActive(s, c)
           THEN returnConnectEndpoint(s, c, Undefined)
           ELSE [s EXCEPT !.pc[c] = "connectFinal", !.hist[c].connectDiscovery = TRUE]

afterPair_IgnoresExitCode(s, c, code) ==
  IF ~isQrSessionActive(s, c) THEN Finally(s, c)
  ELSE waitForConnectEndpoint(
         [updateQrStatus(showMessage(s, c, MSG_PAIR_OK), Status(ST_PAIRED, 0, Undefined))
            EXCEPT !.loc[c].elapsed = 0],
         c, CONNECT_DISCOVERY_TIMEOUT_MS)

\* connectByQrCode after `adb pair` has returned.
afterPair(s, c, code) ==
  IF ~isQrSessionActive(s, c) THEN Finally(s, c)
  ELSE IF code # 0
    THEN Finally(clearQrPairingState(showMessage(s, c, MSG_PAIR_FAILED)), c)
  ELSE waitForConnectEndpoint(
         [updateQrStatus(showMessage(s, c, MSG_PAIR_OK), Status(ST_PAIRED, 0, Undefined))
            EXCEPT !.loc[c].elapsed = 0],
         c, CONNECT_DISCOVERY_TIMEOUT_MS)

\* execCmd(adb, ["pair", pairingEndpoint, pairCode]) is started.
execPair(s, c, pairingEndpoint) ==
  [s EXCEPT !.pc[c] = "pair", !.loc[c].pairingEndpoint = pairingEndpoint,
            !.hist[c].pairArgs = Append(@, <<pairingEndpoint, s.loc[c].pairCode>>)]

afterWaitForPairingEndpoint_NoRecheck(s, c, pairingEndpoint) ==
  IF pairingEndpoint = Undefined
    THEN IF ~isQrSessionActive(s, c) THEN Finally(s, c)
         ELSE Finally(clearQrPairingState(showMessage(s, c, MSG_TIMED_OUT)), c)
  ELSE execPair(updateQrStatus(s, Status(ST_DETECTED, 0, Undefined)), c, pairingEndpoint)

\* connectByQrCode after waitForPairingEndpoint has returned pairingEndpoint.
afterWaitForPairingEndpoint(s, c, pairingEndpoint) ==
  IF ~isQrSessionActive(s, c) THEN Finally(s, c)
  ELSE IF pairingEndpoint = Undefined
    THEN Finally(clearQrPairingState(showMessage(s, c, MSG_TIMED_OUT)), c)
  ELSE execPair(updateQrStatus(s, Status(ST_DETECTED, 0, Undefined)), c, pairingEndpoint)

\* waitForPairingEndpoint returns (startedAt goes out of scope), the caller resumes.
returnPairingEndpoint(s, c, pairingEndpoint) ==
  afterWaitForPairingEndpoint([s EXCEPT !.loc[c].elapsed = 0], c, pairingEndpoint)

waitForPairingEndpoint_NoDeadline(s, c, timeoutMs) ==
  IF ~isQrSessionActive(s, c)
    THEN returnPairingEndpoint(s, c, Undefined)
    ELSE [updateQrStatus(s, Status(ST_WAITING, 0, Undefined)) EXCEPT !.pc[c] = "scanPoll"]

\* waitForPairingEndpoint from the loop condition to its next await.
waitForPairingEndpoint(s, c, timeoutMs) ==
  IF s.loc[c].elapsed < timeoutMs
    THEN IF ~isQrSessionActive(s, c)
           THEN returnPairingEndpoint(s, c, Undefined)
           ELSE LET elapsed == s.loc[c].elapsed
                    remainingSeconds == Ceil(timeoutMs - elapsed, 1000)
                IN  [updateQrStatus(s, Status(ST_WAITING, Max(0, remainingSeconds), Undefined))
                       EXCEPT !.pc[c] = "scanPoll"]
    ELSE returnPairingEndpoint(s, c, Undefined)


\* --------------------------------------------------------------- actions
\* A command invokes connectByQrCode; it runs to the first await of
\* ensureAdbReady (resolveAdbPath and commandExists touch no controller state
\* and are one await here).  Calls are invoked in the order of their numbers.
Invoke(c) ==
  /\ pc[c] \in {"idle", "done"}
  /\ \A d \in 1..(c - 1) : pc[d] \notin {"idle", "done"}
  /\ LET s == Enter
     IN  Becomes([s EXCEPT !.pc[c] = "ensureExists",
                           !.hist[c].invokedWhileActive =
                              (qrSession # NoSession /\ ~cancelled[qrSession])])

\* ensureAdbReady: commandExists(adb) has resolved.
EnsureExistsReturn(c, adbExists) ==
  /\ pc[c] = "ensureExists"
  /\ LET s == Enter
     IN  Becomes(IF ~adbExists
                   THEN [showMessage(s, c, MSG_TOOL_MISSING) EXCEPT !.pc[c] = "done"]
                   ELSE [s EXCEPT !.pc[c] = "ensureServer"])

EnsureServerReturn_IgnoresExitCode(c, code) ==
  /\ pc[c] = "ensureServer"
  /\ LET s == Enter
     IN  Becomes([(IF s.qrSession # NoSession THEN cancelQrPairing(s) ELSE s)
                    EXCEPT !.pc[c] = "resolveAdb"])

\* ensureAdbReady: `adb start-server` has returned; when it succeeded
\* connectByQrCode continues to its await of resolveAdbPath.
EnsureServerReturn(c, code) ==
  /\ pc[c] = "ensureServer"
  /\ LET s == Enter
     IN  Becomes(IF code # 0
                   THEN [showMessage(s, c, MSG_SERVER_FAILED) EXCEPT !.pc[c] = "done"]
                   ELSE [(IF s.qrSession # NoSession THEN cancelQrPairing(s) ELSE s)
                           EXCEPT !.pc[c] = "resolveAdb"])

\* The payload connectByQrCode composes, one atom per separator and field tag.
qrPayload_FieldsSwapped(pairServiceName, pairCode) ==
  <<"WIFI", ":", "T", ":", "ADB", ";", "S", ":">> \o pairCode
    \o <<";", "P", ":">> \o pairServiceName \o <<";", ";">>

qrPayload(pairServiceName, pairCode) ==
  <<"WIFI", ":", "T", ":", "ADB", ";", "S", ":">> \o pairServiceName
    \o <<";", "P", ":">> \o pairCode \o <<";", ";">>

\* The credentials generated and the session published by connectByQrCode.
publishSession(s, c, pairServiceName, pairCode) ==
  setQrPairingState(
    [s EXCEPT !.loc[c].pairServiceName = pairServiceName,
              !.loc[c].pairCode = pairCode,
              !.hist = [d \in Calls |->
                 IF d = c
                   THEN [s.hist[c] EXCEPT !.created = TRUE, !.invokedWhileActive = FALSE]
                   ELSE [s.hist[d] EXCEPT !.superseded = s.hist[d].created]],
              !.cancelled[c] = FALSE,
              !.qrSession = c],
    [ payload |-> qrPayload(pairServiceName, pairCode),
      pairServiceName |-> pairServiceName,
      pairCode |-> pairCode,
      statusMessage |-> Status(ST_OPEN, 0, Undefined) ])

\* resolveAdbPath has resolved: the credentials are generated, the session is
\* created and published, and the snapshot discovery call is started.
ResolveAdbReturn(c, pairServiceName, pairCode) ==
  /\ pc[c] = "resolveAdb"
  /\ LET s == Enter
     IN  Becomes([publishSession(s, c, pairServiceName, pairCode)
                    EXCEPT !.pc[c] = "snapshot"])

\* knownConnectEndpoints: the endpoints of the connect-type services that the
\* snapshot discovery call listed.
knownConnectEndpointsOf(result) ==
  LET connectServices == connectServicesOf(listMdnsServices(result))
  IN  { connectServices[i].endpoint : i \in 1..Len(connectServices) }

\* The snapshot discovery call has returned; waitForPairingEndpoint starts.
SnapshotReturn(c, result) ==
  /\ pc[c] = "snapshot"
  /\ LET s == Enter
         known == knownConnectEndpointsOf(result)
     IN  Becomes(waitForPairingEndpoint(
                   [s EXCEPT !.loc[c].knownConnectEndpoints = known,
                             !.loc[c].elapsed = 0],
                   c, QR_SCAN_TIMEOUT_MS))

findPairingService_AnyType(services, pairServiceName) ==
  Find(SelectSeq(services, LAMBDA sv : sv.instance = pairServiceName))

findPairingService_AnyInstance(services, pairServiceName) ==
  Find(SelectSeq(services,
                 LAMBDA sv : Includes(sv.serviceType, ADB_TLS_PAIRING_SERVICE)))

\* The pairing service of a listing, as waitForPairingEndpoint looks it up.
findPairingService(services, pairServiceName) ==
  Find(SelectSeq(services,
                 LAMBDA sv : /\ sv.instance = pairServiceName
                             /\ Includes(sv.serviceType, ADB_TLS_PAIRING_SERVICE)))

\* waitForPairingEndpoint: a discovery poll has returned.
ScanPollReturn(c, result) ==
  /\ pc[c] = "scanPoll"
  /\ LET s == Enter
         pairingService ==
           findPairingService(listMdnsServices(result), loc[c].pairServiceName)
     IN  Becomes(IF pairingService # <<>>
                   THEN returnPairingEndpoint(s, c, pairingService[1].endpoint)
                   ELSE [s EXCEPT !.pc[c] = "scanSleep",
                                  !.loc[c].sleepLeft = POLL_INTERVAL_MS,
                                  !.hist[c].discoveryFailed = (result.code # 0)])

\* waitForPairingEndpoint: the poll interval has passed.
ScanSleepReturn(c) ==
  /\ pc[c] = "scanSleep"
  /\ loc[c].sleepLeft = 0
  /\ Becomes(waitForPairingEndpoint(Enter, c, QR_SCAN_TIMEOUT_MS))

\* `adb pair` has returned.
PairReturn(c, code) ==
  /\ pc[c] = "pair"
  /\ LET s == Enter
     IN  Becomes(afterPair(s, c, code))

findFreshService_IgnoresSnapshot(services, knownConnectEndpoints) ==
  Find(connectServicesOf(services))

\* The first connect-type service whose endpoint is not in the snapshot.
findFreshService(services, knownConnectEndpoints) ==
  Find(SelectSeq(connectServicesOf(services),
                 LAMBDA sv : sv.endpoint \notin knownConnectEndpoints))

\* waitForConnectEndpoint: a discovery poll made before the deadline has returned.
ConnectPollReturn(c, result) ==
  /\ pc[c] = "connectPoll"
  /\ LET s == Enter
         services == listMdnsServices(result)
         freshService == findFreshService(services, loc[c].knownConnectEndpoints)
     IN  Becomes(IF freshService # <<>>
                   THEN returnConnectEndpoint([s EXCEPT !.hist[c].connectVia = "fresh"],
                                              c, freshService[1].endpoint)
                   ELSE [s EXCEPT !.pc[c] = "connectSleep",
                                  !.loc[c].sleepLeft = POLL_INTERVAL_MS,
                                  !.hist[c].discoveryFailed = (result.code # 0)])

\* waitForConnectEndpoint: the poll interval has passed.
ConnectSleepReturn(c) ==
  /\ pc[c] = "connectSleep"
  /\ loc[c].sleepLeft = 0
  /\ Becomes(waitForConnectEndpoint(Enter, c,
                                    CONNECT_DISCOVERY_TIMEOUT_MS))

finalEndpoint_FirstOfAny(services) ==
  LET finalConnectServices == connectServicesOf(services)
  IN  IF Len(finalConnectServices) >= 1
        THEN finalConnectServices[1].endpoint ELSE Undefined

\* The endpoint the final listing resolves to.
finalEndpoint(services) ==
  LET finalConnectServices == connectServicesOf(services)
  IN  IF Len(finalConnectServices) = 1
        THEN finalConnectServices[1].endpoint ELSE Undefined

\* waitForConnectEndpoint: the final discovery call has returned.
ConnectFinalReturn(c, result) ==
  /\ pc[c] = "connectFinal"
  /\ LET s == Enter
         services == listMdnsServices(result)
     IN  Becomes(returnConnectEndpoint([s EXCEPT !.hist[c].connectVia = "final"],
                                       c, finalEndpoint(services)))

\* runAdbConnect: resolveAdbPath has resolved and `adb connect` is started.
ConnectResolveReturn(c) ==
  /\ pc[c] = "connectResolve"
  /\ LET s == Enter
     IN  Becomes([s EXCEPT !.pc[c] = "connect",
                           !.hist[c].connectArgs = Append(@, s.loc[c].connectEndpoint)])

afterRunAdbConnect_OnlyWhenActive(s, c) ==
  Finally(IF isQrSessionActive(s, c) THEN refresh(clearQrPairingState(s)) ELSE s, c)

\* connectByQrCode after runAdbConnect has returned.
afterRunAdbConnect(s, c) == Finally(refresh(clearQrPairingState(s)), c)

\* `adb connect` has returned: runAdbConnect reports and returns, and
\* connectByQrCode finishes.
ConnectReturn(c, code) ==
  /\ pc[c] = "connect"
  /\ LET s == Enter
     IN  Becomes(afterRunAdbConnect(
                   showMessage(s, c, IF code # 0 THEN MSG_CONNECT_FAILED ELSE MSG_CONNECT_OK),
                   c))

\* The view's cancel button: cancelQrPairing.
CancelQr ==
  Becomes(cancelQrPairing(Enter))

\* Time passes.
Tick ==
  LET s == Enter
      advance(l, p) ==
        [l EXCEPT !.elapsed =
                     IF p \in {"scanPoll", "scanSleep"}
                       THEN Min(@ + TickMs, QR_SCAN_TIMEOUT_MS)
                     ELSE IF p \in {"connectPoll", "connectSleep"}
                       THEN Min(@ + TickMs, CONNECT_DISCOVERY_TIMEOUT_MS)
                     ELSE @,
                  !.sleepLeft = Max(0, @ - TickMs)]
      older(h) ==
        [h EXCEPT !.age = IF h.created THEN Min(@ + TickMs, CONNECT_DISCOVERY_TIMEOUT_MS) ELSE @]
  IN  Becomes([s EXCEPT !.loc = [c \in Calls |-> advance(s.loc[c], s.pc[c])],
                        !.hist = [c \in Calls |-> older(s.hist[c])]])

Next ==
  \/ \E c \in Calls : Invoke(c)
  \/ \E c \in Calls, adbExists \in BOOLEAN : EnsureExistsReturn(c, adbExists)
  \/ \E c \in Calls, code \in ExitCodes : EnsureServerReturn(c, code)
  \/ \E c \in Calls : ResolveAdbReturn(c, NameOf(c), CodeOf(c))
  \/ \E c \in Calls, r \in MdnsResults : SnapshotReturn(c, r)
  \/ \E c \in Calls, r \in MdnsResults : ScanPollReturn(c, r)
  \/ \E c \in Calls : ScanSleepReturn(c)
  \/ \E c \in Calls, code \in ExitCodes : PairReturn(c, code)
  \/ \E c \in Calls, r \in MdnsResults : ConnectPollReturn(c, r)
  \/ \E c \in Calls : ConnectSleepReturn(c)
  \/ \E c \in Calls, r \in MdnsResults : ConnectFinalReturn(c, r)
  \/ \E c \in Calls : ConnectResolveReturn(c)
  \/ \E c \in Calls, code \in ExitCodes : ConnectReturn(c, code)
  \/ CancelQr
  \/ Tick

Spec == Init /\ [][Next]_vars

\* The calls of the behaviours with fairness: one connectByQrCode call
\* at a time, with cancelQrPairing and the clock interleaved.
LiveCalls == {1}

\* The steps of call c that an external call, the file system or a timer
\* resolving brings about.
Resume(c) ==
  \/ \E adbExists \in BOOLEAN : EnsureExistsReturn(c, adbExists)
  \/ \E code \in ExitCodes : EnsureServerReturn(c, code)
  \/ ResolveAdbReturn(c, NameOf(c), CodeOf(c))
  \/ \E r \in MdnsResults : SnapshotReturn(c, r)
  \/ \E r \in MdnsResults : ScanPollReturn(c, r)
  \/ ScanSleepReturn(c)
  \/ \E code \in ExitCodes : PairReturn(c, code)
  \/ \E r \in MdnsResults : ConnectPollReturn(c, r)
  \/ ConnectSleepReturn(c)
  \/ \E r \in MdnsResults : ConnectFinalReturn(c, r)
  \/ ConnectResolveReturn(c)
  \/ \E code \in ExitCodes : ConnectReturn(c, code)

LiveNext ==
  \/ \E c \in LiveCalls : Invoke(c)
  \/ \E c \in LiveCalls : Resume(c)
  \/ CancelQr
  \/ Tick

\* Every external call returns, every timer fires and the clock advances.
LiveSpec ==
  /\ Init /\ [][LiveNext]_vars
  /\ WF_vars(Tick)
  /\ \A c \in LiveCalls : WF_vars(Resume(c))


\* ---------------------------------------------------- functions without state
\* Text is a sequence of atoms: a white-space character, a colon, a line
\* feed, or a run of other characters taken as one atom.
SP == " "
CR == "\r"
LF == "\n"
COLON == ":"
WhiteSpace == {SP, CR, LF}

\* String.prototype.split with a separator of one character out of `seps`.
\* The pieces are what lies between one separator and the next.
SplitAt(str, seps) ==
  LET at == { i \in 1..Len(str) : str[i] \in seps }
      sep(k) == IF k = 0 THEN 0
                ELSE IF k > Cardinality(at) THEN Len(str) + 1
                ELSE CHOOSE i \in at : Cardinality({ j \in at : j < i }) = k - 1
  IN  [ k \in 1..(Cardinality(at) + 1) |-> SubSeq(str, sep(k - 1) + 1, sep(k) - 1) ]

\* stdout.split(/\r?\n/): a carriage return right before a line feed belongs
\* to the separator.
SplitLines(stdout) ==
  LET pieces == SplitAt(stdout, {LF})
  IN  [ i \in 1..Len(pieces) |->
          IF i < Len(pieces) /\ pieces[i] # <<>> /\ pieces[i][Len(pieces[i])] = CR
            THEN SubSeq(pieces[i], 1, Len(pieces[i]) - 1)
            ELSE pieces[i] ]

\* String.prototype.trim.
Trim(str) ==
  LET inked == { i \in 1..Len(str) : str[i] \notin WhiteSpace }
  IN  IF inked = {} THEN <<>>
      ELSE SubSeq(str, CHOOSE i \in inked : \A j \in inked : i <= j,
                       CHOOSE i \in inked : \A j \in inked : i >= j)

\* line.split(/\s+/) of a trimmed, non-empty line: the runs between white space.
SplitWhiteSpace(line) ==
  SelectSeq(SplitAt(line, WhiteSpace), LAMBDA piece : piece # <<>>)

\* String.prototype.startsWith.
StartsWith(str, prefix) ==
  Len(str) >= Len(prefix) /\ SubSeq(str, 1, Len(prefix)) = prefix

\* Array.prototype.join.
RECURSIVE Join(_, _)
Join(strs, sep) ==
  IF strs = <<>> THEN <<>>
  ELSE IF Len(strs) = 1 THEN strs[1]
  ELSE strs[1] \o <<sep>> \o Join(Tail(strs), sep)

DEVICES_HEADER == <<"List", SP, "of", SP, "devices", SP, "attached">>

\* kv["model"] after the loop over kvParts: the value of the last part whose
\* key is "model" and whose key and value are both non-empty.
modelOf(kvParts) ==
  LET split == [ i \in 1..Len(kvParts) |-> SplitAt(kvParts[i], {COLON}) ]
      value(i) == IF Len(split[i]) >= 2 THEN split[i][2] ELSE Undefined
      set == { i \in 1..Len(kvParts) :
                 split[i][1] = <<"model">> /\ value(i) # <<>> }
  IN  IF set = {} THEN Undefined
      ELSE value(CHOOSE i \in set : \A j \in set : i >= j)

parseAdbDevices_NeedsDetails(stdout) ==
  LET rawLines == SplitLines(stdout)
      lines == [ i \in 1..Len(rawLines) |-> Trim(rawLines[i]) ]
      kept == SelectSeq(lines, LAMBDA line :
                /\ line # <<>> /\ ~StartsWith(line, DEVICES_HEADER)
                /\ Len(SplitWhiteSpace(line)) >= 3)
  IN  [ i \in 1..Len(kept) |->
          LET parts == SplitWhiteSpace(kept[i])
              kvParts == SubSeq(parts, 3, Len(parts))
          IN  [ serial |-> parts[1], state |-> parts[2],
                model |-> modelOf(kvParts), details |-> Join(kvParts, SP) ] ]

\* parseAdbDevices: one record per line that is neither empty nor the header
\* and has at least two parts.
parseAdbDevices(stdout) ==
  LET rawLines == SplitLines(stdout)
      lines == [ i \in 1..Len(rawLines) |-> Trim(rawLines[i]) ]
      kept == SelectSeq(lines, LAMBDA line :
                /\ line # <<>> /\ ~StartsWith(line, DEVICES_HEADER)
                /\ Len(SplitWhiteSpace(line)) >= 2)
  IN  [ i \in 1..Len(kept) |->
          LET parts == SplitWhiteSpace(kept[i])
              kvParts == SubSeq(parts, 3, Len(parts))
          IN  [ serial |-> parts[1], state |-> parts[2],
                model |-> modelOf(kvParts), details |-> Join(kvParts, SP) ] ]


\* What execFile hands to its callback: no error, an error whose code is the
\* exit code of the process, or an error whose code is the string 'ENOENT'
\* because the file could not be launched (then there is no output).
ExecOutcomes ==
  { [error |-> "none", exit |-> 0, stdout |-> out, stderr |-> err] :
      out \in {<<>>, <<"out">>}, err \in {<<>>, <<"err">>} }
    \cup { [error |-> "exit", exit |-> n, stdout |-> out, stderr |-> err] :
             n \in {1, 127}, out \in {<<>>, <<"out">>}, err \in {<<>>, <<"err">>} }
    \cup { [error |-> "ENOENT", exit |-> 0, stdout |-> <<>>, stderr |-> <<>>] }

execCmd_RawCode(outcome) ==
  LET code == IF outcome.error = "exit" THEN outcome.exit ELSE 0
  IN  [ stdout |-> outcome.stdout, stderr |-> outcome.stderr,
        code |-> IF outcome.error # "none" THEN code ELSE 0 ]

\* execCmd: the result it resolves with.
execCmd(outcome) ==
  LET code == IF outcome.error = "exit" THEN outcome.exit ELSE 0
  IN  [ stdout |-> outcome.stdout, stderr |-> outcome.stderr,
        code |-> IF outcome.error # "none" THEN (IF code # 0 THEN code ELSE 1) ELSE 0 ]

\* commandExists, given the outcomes of running the command with "version"
\* and with no arguments.
commandExists(version, bare) ==
  LET r == execCmd(version)
      r2 == execCmd(bare)
  IN  IF r.code = 0 THEN TRUE
      ELSE Len(r2.stderr) > 0 \/ Len(r2.stdout) > 0 \/ r2.code # 127

\* The lines of `adb devices -l` outputs: blank lines, lines of one token, and
\* device lines `<serial> <state> [key:value]*` with at most one model.
KvLists ==
  { <<>>,
    << <<"model", COLON, "Pixel6">> >>,
    << <<"usb", COLON, "1-1">>, <<"transport_id", COLON, "1">> >>,
    << <<"product", COLON, "oriole">>, <<"model", COLON, "Pixel6">>,
       <<"transport_id", COLON, "1">> >> }

DeviceLines ==
  { [kind |-> "blank", serial |-> <<>>, state |-> <<>>, kv |-> <<>>],
    [kind |-> "malformed", serial |-> <<"*">>, state |-> <<>>, kv |-> <<>>] }
    \cup { [kind |-> "valid", serial |-> serial, state |-> <<state>>, kv |-> kv] :
             serial \in { <<"ABC123">>, <<"192.168.1.5", COLON, "5555">> },
             state \in {"device", "unauthorized"},
             kv \in KvLists }

DeviceListings == SeqsUpTo(DeviceLines, MaxDeviceLines)

RECURSIVE Concat(_)
Concat(strs) == IF strs = <<>> THEN <<>> ELSE Head(strs) \o Concat(Tail(strs))

\* The text of a listing: the header and the lines, the tokens of a line
\* `gap` apart (a blank line is `gap`, a line of one token is indented by
\* it), every line ended by `eol`.
RenderLine(line, gap) ==
  IF line.kind = "blank" THEN gap
  ELSE IF line.kind = "malformed" THEN gap \o line.serial
  ELSE line.serial \o gap \o line.state
         \o Concat([ i \in 1..Len(line.kv) |-> gap \o line.kv[i] ])

RenderListing(listing, gap, eol) ==
  DEVICES_HEADER \o eol
    \o Concat([ i \in 1..Len(listing) |-> RenderLine(listing[i], gap) \o eol ])

Gaps == { <<SP>>, <<SP, SP>> }
Eols == { <<LF>>, <<CR, LF>> }

\* What parseMdnsServices makes of stdout before it looks at the parts of a
\* line: the lines, each trimmed and split on white space (an empty line has
\* no parts).
MdnsLinesOf(stdout) ==
  LET lines == SplitLines(stdout)
  IN  [ i \in 1..Len(lines) |-> SplitWhiteSpace(Trim(lines[i])) ]

\* The lines of `adb mdns services` outputs, as their tokens: a blank line,
\* lines of one and of two tokens, service lines, a service line with a
\* fourth token, and the header line.
MdnsTokenLines ==
  { <<>>,
    << <<"*">> >>,
    << <<"studio-ab12cd34">>, <<"_adb-tls-pairing._tcp.">> >>,
    << <<"studio-ab12cd34">>, <<"_adb-tls-pairing._tcp.">>,
       <<"192.168.1.5", COLON, "37001">> >>,
    << <<"adb-R58M">>, <<"_adb-tls-connect._tcp.">>,
       <<"192.168.1.5", COLON, "5555">>, <<"extra">> >>,
    << <<"List">>, <<"of">>, <<"discovered">>, <<"mdns">>, <<"services">> >> }

MdnsListings == SeqsUpTo(MdnsTokenLines, MaxMdnsLines)

\* The text of a service listing: every line indented by `gap`, its tokens
\* `gap` apart, ended by `eol`.
RenderMdnsListing(listing, gap, eol) ==
  Concat([ i \in 1..Len(listing) |->
             Concat([ k \in 1..Len(listing[i]) |-> gap \o listing[i][k] ])
               \o gap \o eol ])

SEMI == ";"

\* The alphabets and lengths connectByQrCode passes to randomFromAlphabet,
\* one atom per character.
NAME_ALPHABET ==
  << "a", "b", "c", "d", "e", "f", "g", "h", "i", "j", "k", "l", "m", "n", "o",
     "p", "q", "r", "s", "t", "u", "v", "w", "x", "y", "z",
     "0", "1", "2", "3", "4", "5", "6", "7", "8", "9" >>
CODE_ALPHABET ==
  << "A", "B", "C", "D", "E", "F", "G", "H", "J", "K", "L", "M", "N", "P", "Q",
     "R", "S", "T", "U", "V", "W", "X", "Y", "Z",
     "2", "3", "4", "5", "6", "7", "8", "9" >>
NAME_LENGTH == 8
CODE_LENGTH == 12

\* What randomBytes(length) may return: the bytes from b on, `step` apart;
\* every byte value occurs at every position.
ByteSteps == {1, 37}
RandomBytes(b, step, length) == [ i \in 1..length |-> (b + (i - 1) * step) % 256 ]

randomFromAlphabet_OneShort(length, alphabet, bytes) ==
  [ i \in 1..(length - 1) |-> alphabet[(bytes[i] % Len(alphabet)) + 1] ]

\* randomFromAlphabet, given the bytes randomBytes(length) returned.
randomFromAlphabet(length, alphabet, bytes) ==
  [ i \in 1..length |-> alphabet[(bytes[i] % Len(alphabet)) + 1] ]

\* The credentials connectByQrCode generates.
pairServiceNameOf(bytes) ==
  <<"studio-">> \o randomFromAlphabet(NAME_LENGTH, NAME_ALPHABET, bytes)

pairCodeOf(bytes) == randomFromAlphabet(CODE_LENGTH, CODE_ALPHABET, bytes)

\* The reader of a payload: the field `key` is what lies between the first
\* `<key>:` and the next ';'.
payloadField(payload, key) ==
  LET starts == { i \in 1..(Len(payload) - 1) :
                    payload[i] = key /\ payload[i + 1] = COLON }
      start == CHOOSE i \in starts : \A j \in starts : i <= j
      ends == { i \in (start + 2)..Len(payload) : payload[i] = SEMI }
      end == CHOOSE i \in ends : \A j \in ends : i <= j
  IN  IF starts = {} THEN Undefined
      ELSE IF ends = {} THEN SubSeq(payload, start + 2, Len(payload))
      ELSE SubSeq(payload, start + 2, end - 1)

parsePayload(payload) ==
  [ serviceName |-> payloadField(payload, "S"),
    pairCode |-> payloadField(payload, "P") ]

\* The lengths and alphabets randomFromAlphabet is evaluated on.
RandomArgs ==
  { <<length, alphabet>> :
      length \in {0, 1, NAME_LENGTH, CODE_LENGTH},
      alphabet \in {NAME_ALPHABET, CODE_ALPHABET} }

\* cleanOutput: trimmed, every run of white space one space.
cleanOutput(value) == Join(SplitWhiteSpace(Trim(value)), SP)

\* a || b on strings: the empty string is falsy.
OrElse(a, b) == IF a # <<>> THEN a ELSE b

\* The "Connection" section of the view model.
ConnectionSection ==
  [ title |-> "Connection",
    items |-> << [kind |-> "action", label |-> "Connect Device...", tone |-> "neutral",
                  actionId |-> "connect"],
                 [kind |-> "action", label |-> "Connect by IP", tone |-> "neutral",
                  actionId |-> "connectIp"],
                 [kind |-> "action", label |-> "Connect by QR", tone |-> "neutral",
                  actionId |-> "connectQr"],
                 [kind |-> "action", label |-> "Connect by Pairing Code", tone |-> "neutral",
                  actionId |-> "connectPair"],
                 [kind |-> "action", label |-> "Refresh", tone |-> "neutral",
                  actionId |-> "refresh"] >> ]

\* The item of a device record.
deviceItem(device) ==
  [ kind |-> "device",
    label |-> IF device.model # Undefined THEN device.model ELSE device.serial,
    description |-> IF device.details # <<>>
                      THEN device.state \o <<SP, "·", SP>> \o device.details
                      ELSE device.state,
    tone |-> IF device.state = <<"device">> THEN "ok" ELSE "warning" ]

NoDevicesItem ==
  [ kind |-> "device", label |-> <<"No connected devices">>,
    description |-> <<"Enable USB debugging or wireless debugging">>,
    tone |-> "neutral" ]

\* getViewModel, given what commandExists(adb) resolved to, the results of
\* `adb start-server` and `adb devices -l`, and this.qrPairing.
getViewModel(adbExists, startServer, devicesResult, pairing) ==
  IF ~adbExists
    THEN [ sections |->
             << [ title |-> "ADB Status",
                  items |-> << [ kind |-> "status", label |-> "adb not found in PATH",
                                 description |-> <<"Install Android platform-tools">>,
                                 tone |-> "error" ] >> ] >>,
           qrPairing |-> Undefined ]
    ELSE
      LET adbOk == startServer.code = 0 /\ devicesResult.code = 0
          devices == IF adbOk THEN parseAdbDevices(devicesResult.stdout) ELSE <<>>
      IN  [ sections |->
              << [ title |-> "ADB Status",
                   items |->
                     << [ kind |-> "status",
                          label |-> IF adbOk THEN "adb ready" ELSE "adb failed",
                          description |->
                            IF adbOk THEN <<"Server reachable">>
                            ELSE OrElse(cleanOutput(startServer.stderr),
                                        OrElse(cleanOutput(devicesResult.stderr),
                                               <<"Check adb setup and retry">>)),
                          tone |-> IF adbOk THEN "ok" ELSE "error" ] >> ],
                 [ title |-> "Connected Devices",
                   items |-> IF Len(devices) > 0
                               THEN [ i \in 1..Len(devices) |-> deviceItem(devices[i]) ]
                               ELSE << NoDevicesItem >> ],
                 ConnectionSection >>,
            qrPairing |-> pairing ]

\* What `adb start-server` may do: succeed or fail, silently, with the notice
\* of the daemon it started on stderr, or with a line on stdout.
StartServerOutcomes ==
  { [error |-> e, exit |-> IF e = "none" THEN 0 ELSE 1, stdout |-> out, stderr |-> err] :
      e \in {"none", "exit"},
      out \in { <<>>, <<"cannot", SP, SP, "bind", LF>> },
      err \in { <<>>, <<"*", SP, "daemon", SP, "started", SP, "successfully", LF>> } }

\* What `adb devices -l` may do: succeed or fail, with a listing of at most
\* one line or nothing on stdout, and with or without a message on stderr.
DevicesOutcomes ==
  { [error |-> e, exit |-> IF e = "none" THEN 0 ELSE 1, stdout |-> out, stderr |-> err] :
      e \in {"none", "exit"},
      out \in { <<>> } \cup { RenderListing(listing, <<SP>>, <<LF>>) :
                                listing \in SeqsUpTo(DeviceLines, 1) },
      err \in { <<>>, <<"error", COLON, SP, SP, "protocol", SP, "fault", LF>> } }

\* A path is the sequence of its segments; path.join drops empty ones.
pathJoin(paths) == Concat(paths)

\* adbName: the file name of the adb executable.
adbName(platform) == IF platform = "win32" THEN "adb.exe" ELSE "adb"

\* The environment resolveAdbPath reads: the two environment variables, the
\* two settings and HOME (each a path, <<>> when unset or empty), and the
\* platform.
SdkRoots == { <<>>, <<"/sdkA">>, <<"/sdkB">> }
Platforms == { <<"darwin", <<"/Users/dev">> >>, <<"darwin", <<>> >>,
               <<"linux", <<"/home/dev">> >>, <<"win32", <<>> >> }
Environments ==
  { [ ANDROID_SDK_ROOT |-> r1, ANDROID_HOME |-> r2, androidSdkPath |-> r3,
      flutterSdkPath |-> r4, platform |-> p[1], HOME |-> p[2] ] :
      r1 \in SdkRoots, r2 \in SdkRoots, r3 \in SdkRoots, r4 \in SdkRoots,
      p \in Platforms }

\* The roots under which platform-tools/<adb executable> may exist: the two
\* SDKs, the macOS default and the working directory.
InstalledRoots ==
  SUBSET { <<"/sdkA">>, <<"/sdkB">>, <<"/Users/dev", "Library/Android/sdk">>, <<>> }

resolveAdbPath_HomeFirst(env, installed) ==
  LET exists(p) == \E root \in installed :
                     p = pathJoin(<<root, <<"platform-tools">>, <<adbName(env.platform)>> >>)
      candidates == << env.ANDROID_HOME, env.ANDROID_SDK_ROOT, env.androidSdkPath,
                       env.flutterSdkPath >>
                      \o (IF env.platform = "darwin"
                            THEN << pathJoin(<<env.HOME, <<"Library/Android/sdk">> >>) >>
                            ELSE <<>>)
      adbOf(sdkRoot) == pathJoin(<<sdkRoot, <<"platform-tools">>, <<adbName(env.platform)>> >>)
      found == SelectSeq(candidates, LAMBDA sdkRoot : sdkRoot # <<>> /\ exists(adbOf(sdkRoot)))
  IN  IF found # <<>> THEN adbOf(found[1]) ELSE <<"adb">>

\* resolveAdbPath, given the environment and the files fs.access finds.
resolveAdbPath(env, installed) ==
  LET exists(p) == \E root \in installed :
                     p = pathJoin(<<root, <<"platform-tools">>, <<adbName(env.platform)>> >>)
      candidates == << env.ANDROID_SDK_ROOT, env.ANDROID_HOME, env.androidSdkPath,
                       env.flutterSdkPath >>
                      \o (IF env.platform = "darwin"
                            THEN << pathJoin(<<env.HOME, <<"Library/Android/sdk">> >>) >>
                            ELSE <<>>)
      adbOf(sdkRoot) == pathJoin(<<sdkRoot, <<"platform-tools">>, <<adbName(env.platform)>> >>)
      found == SelectSeq(candidates, LAMBDA sdkRoot : sdkRoot # <<>> /\ exists(adbOf(sdkRoot)))
  IN  IF found # <<>> THEN adbOf(found[1]) ELSE <<"adb">>

\* The outcomes execCmd is evaluated on: those above, and a process ended by
\* a signal (the error's code is null then).
ExecCmdOutcomes ==
  ExecOutcomes
    \cup { [error |-> "signal", exit |-> 0, stdout |-> out, stderr |-> <<>>] :
             out \in {<<>>, <<"out">>} }

\* What the user does with an input box: dismiss it, type a text, or keep
\* the text it was opened with.
UserInputs(texts) ==
  { [kind |-> "dismiss", text |-> <<>>], [kind |-> "keep", text |-> <<>>] }
    \cup { [kind |-> "type", text |-> t] : t \in texts }

\* showInputBox with a validateInput that wants a non-blank value: a box
\* whose text is blank cannot be accepted, it can only be dismissed.
showInputBox(value, input) ==
  LET text == IF input.kind = "keep" THEN value ELSE input.text
  IN  IF input.kind = "dismiss" \/ Trim(text) = <<>> THEN Undefined ELSE text

\* `<message>: <reason>` when there is a reason.
WithReason(message, reason) ==
  IF reason # <<>> THEN <<message, COLON, SP>> \o reason ELSE <<message>>

\* What a flow has done: the adb commands it ran and the change events it
\* fired, in order, and the messages it showed.
NothingDone == [ran |-> <<>>, shown |-> <<>>]

\* ensureAdbReady(true), given what commandExists and `adb start-server` gave.
ensureAdbReady(adbExists, server) ==
  IF ~adbExists
    THEN [ready |-> FALSE, shown |-> << [kind |-> "warning", text |-> <<MSG_TOOL_MISSING>>] >>]
  ELSE IF server.code # 0
    THEN [ready |-> FALSE,
          shown |-> << [kind |-> "error",
                        text |-> WithReason(MSG_SERVER_FAILED,
                                   OrElse(cleanOutput(server.stderr),
                                          cleanOutput(server.stdout)))] >>]
  ELSE [ready |-> TRUE, shown |-> <<>>]

\* runAdbConnect of the input-driven flows, given the result of `adb connect`.
adbConnect(done, endpoint, result) ==
  LET output == OrElse(cleanOutput(result.stdout), cleanOutput(result.stderr))
  IN  [ ran |-> Append(done.ran, <<"connect", endpoint>>),
        shown |-> Append(done.shown,
                    IF result.code # 0
                      THEN [kind |-> "error", text |-> WithReason(MSG_CONNECT_FAILED, output)]
                      ELSE [kind |-> "info",
                            text |-> OrElse(output, <<MSG_CONNECT_OK, SP>> \o endpoint \o <<".">>)]) ]

afterAdbPair_IgnoresExitCode(done, pairEndpoint, pairResult, connectInput, connectResult) ==
  LET pairOutput == OrElse(cleanOutput(pairResult.stdout), <<MSG_PAIR_OK>>)
      told == [done EXCEPT !.shown = Append(@, [kind |-> "info", text |-> pairOutput])]
      suggestedHost == SplitAt(Trim(pairEndpoint), {COLON})[1]
      connectEndpoint ==
        showInputBox(IF suggestedHost # <<>> THEN suggestedHost \o <<COLON, "5555">> ELSE <<>>,
                     connectInput)
  IN  IF connectEndpoint = Undefined THEN told
      ELSE adbConnect(told, Trim(connectEndpoint), connectResult)

\* connectByPairingCode after `adb pair` has returned.
afterAdbPair(done, pairEndpoint, pairResult, connectInput, connectResult) ==
  IF pairResult.code # 0
    THEN [done EXCEPT !.shown =
            Append(@, [kind |-> "error",
                       text |-> WithReason(MSG_PAIR_FAILED,
                                  OrElse(cleanOutput(pairResult.stderr),
                                         cleanOutput(pairResult.stdout)))])]
  ELSE
    LET pairOutput == OrElse(cleanOutput(pairResult.stdout), <<MSG_PAIR_OK>>)
        told == [done EXCEPT !.shown = Append(@, [kind |-> "info", text |-> pairOutput])]
        suggestedHost == SplitAt(Trim(pairEndpoint), {COLON})[1]
        connectEndpoint ==
          showInputBox(IF suggestedHost # <<>> THEN suggestedHost \o <<COLON, "5555">> ELSE <<>>,
                       connectInput)
    IN  IF connectEndpoint = Undefined THEN told
        ELSE adbConnect(told, Trim(connectEndpoint), connectResult)

\* connectByPairingCode, given what commandExists, `adb start-server`, the user
\* and `adb pair` / `adb connect` gave.
connectByPairingCode(adbExists, server, endpointInput, codeInput, pairResult, connectInput, connectResult) ==
  LET ensured == ensureAdbReady(adbExists, server)
      pairEndpoint == showInputBox(<<>>, endpointInput)
      pairingCode == showInputBox(<<>>, codeInput)
  IN  IF ~ensured.ready THEN [NothingDone EXCEPT !.shown = ensured.shown]
      ELSE IF pairEndpoint = Undefined THEN NothingDone
      ELSE IF pairingCode = Undefined THEN NothingDone
      ELSE afterAdbPair([NothingDone EXCEPT
                           !.ran = << <<"pair", Trim(pairEndpoint), Trim(pairingCode)>> >>],
                        pairEndpoint, pairResult, connectInput, connectResult)

\* What the user types into the boxes, and what adb answers.
TypedEndpoints ==
  { <<"192.168.1.5", COLON, "37001">>, <<SP, "192.168.1.5", COLON, "37001", SP>>,
    <<SP, SP>>, <<COLON, "37001">> }
TypedCodes == { <<"123456">>, <<SP, "123456", LF>>, <<SP>> }
AdbResults ==
  { [code |-> 0, stdout |-> <<"done", SP, SP, "ok", LF>>, stderr |-> <<>>],
    [code |-> 0, stdout |-> <<>>, stderr |-> <<>>],
    [code |-> 1, stdout |-> <<>>, stderr |-> <<"error", COLON, SP, "protocol", SP, "fault", LF>>],
    [code |-> 1, stdout |-> <<"failed", LF>>, stderr |-> <<>>] }

\* refresh() of the input-driven flows: the change event is fired.
refreshed(done) == [done EXCEPT !.ran = Append(@, <<"refresh">>)]

\* connectByIpAddress, given what commandExists, `adb start-server`, the user
\* and `adb connect` gave.
connectByIpAddress(adbExists, server, endpointInput, connectResult) ==
  LET ensured == ensureAdbReady(adbExists, server)
      endpoint == showInputBox(<<>>, endpointInput)
  IN  IF ~ensured.ready THEN [NothingDone EXCEPT !.shown = ensured.shown]
      ELSE IF endpoint = Undefined THEN NothingDone
      ELSE adbConnect(NothingDone, Trim(endpoint), connectResult)

\* promptConnectMethod, given what commandExists and `adb start-server` gave,
\* the method picked (Undefined when the picker was dismissed) and what the
\* flow of that method did.
promptConnectMethod(adbExists, server, method, flow) ==
  LET ensured == ensureAdbReady(adbExists, server)
  IN  IF ~ensured.ready THEN [NothingDone EXCEPT !.shown = ensured.shown]
      ELSE IF method = Undefined THEN NothingDone
      ELSE refreshed(flow)

CMD_CONNECT == "flutterWise.devices.connect"
CMD_CONNECT_IP == "flutterWise.devices.connect.ip"
CMD_CONNECT_PAIR == "flutterWise.devices.connect.pair"
ConnectCommands == {CMD_CONNECT, CMD_CONNECT_IP, CMD_CONNECT_PAIR}
\* What showQuickPick resolves with: nothing, or the one item picked.
PickedMethods == {Undefined, <<"ip">>, <<"pair">>}

\* The handlers registered for the connect commands whose flows are driven by
\* input boxes; `a` holds what the environment and the user give.
executeCommand(command, a) ==
  LET byIp == connectByIpAddress(a.adbExists, a.server, a.endpointInput, a.connectResult)
      byPair == connectByPairingCode(a.adbExists, a.server, a.endpointInput, a.codeInput,
                                     a.pairResult, a.connectInput, a.connectResult)
  IN  CASE command = CMD_CONNECT_IP -> byIp
        [] command = CMD_CONNECT_PAIR -> byPair
        [] command = CMD_CONNECT ->
             promptConnectMethod(a.pickerAdbExists, a.pickerServer, a.method,
                                 IF a.method = <<"ip">> THEN byIp ELSE byPair)

\* What the environment and the user give to a connect command.
CommandInputs ==
  LET ok == CHOOSE r \in AdbResults : r.code = 0
  IN  { [ pickerAdbExists |-> TRUE, pickerServer |-> pickerServer, method |-> method,
          adbExists |-> TRUE, server |-> ok,
          endpointInput |-> endpointInput,
          codeInput |-> [kind |-> "type", text |-> <<"123456">>],
          pairResult |-> ok,
          connectInput |-> [kind |-> "keep", text |-> <<>>],
          connectResult |-> connectResult ] :
        pickerServer \in AdbResults, method \in PickedMethods,
        endpointInput \in UserInputs(TypedEndpoints), connectResult \in AdbResults }

\* The functions below are evaluated once, on arguments out of the sets above;
\* they leave the controller and its calls alone.
Untouched == UNCHANGED <<pc, qrSession, qrPairing, cancelled, loc, hist, fired, view, posting>>

\* commandExists is evaluated.
CommandExists(version, bare) ==
  /\ probe = NoProbe
  /\ probe' = [ fn |-> "commandExists", args |-> <<version, bare>>,
                result |-> commandExists(version, bare) ]
  /\ Untouched

\* parseAdbDevices is evaluated on the text of a listing.
ParseAdbDevices(listing, gap, eol) ==
  /\ probe = NoProbe
  /\ probe' = [ fn |-> "parseAdbDevices", args |-> listing,
                stdout |-> RenderListing(listing, gap, eol),
                result |-> parseAdbDevices(RenderListing(listing, gap, eol)) ]
  /\ Untouched

\* parseMdnsServices is evaluated on the text of a service listing.
ParseMdnsServices(listing, gap, eol) ==
  /\ probe = NoProbe
  /\ probe' = [ fn |-> "parseMdnsServices", args |-> listing,
                stdout |-> RenderMdnsListing(listing, gap, eol),
                result |-> parseMdnsServices(MdnsLinesOf(RenderMdnsListing(listing, gap, eol))) ]
  /\ Untouched

\* randomFromAlphabet is evaluated.
RandomFromAlphabet(length, alphabet, bytes) ==
  /\ probe = NoProbe
  /\ probe' = [ fn |-> "randomFromAlphabet", args |-> <<length, alphabet, bytes>>,
                result |-> randomFromAlphabet(length, alphabet, bytes) ]
  /\ Untouched

\* connectByQrCode generates the credentials and publishes the session; a
\* phone that has read the payload advertises the pairing service, which
\* the session looks up, and `adb pair` is started.
GenerateCredentials(nameBytes, codeBytes) ==
  /\ probe = NoProbe
  /\ LET s == publishSession(State, 1, pairServiceNameOf(nameBytes), pairCodeOf(codeBytes))
         read == parsePayload(s.qrPairing[1].payload)
         services == << [ instance |-> read.serviceName,
                          serviceType |-> ADB_TLS_PAIRING_SERVICE,
                          endpoint |-> <<"192.168.1.5", COLON, "37001">> ] >>
         pairingService == findPairingService(services, s.loc[1].pairServiceName)
     IN  probe' = [ fn |-> "connectByQrCode", args |-> <<nameBytes, codeBytes>>,
                    published |-> s.qrPairing[1],
                    pairServiceName |-> s.loc[1].pairServiceName,
                    pairCode |-> s.loc[1].pairCode,
                    read |-> read,
                    pairingService |-> pairingService,
                    pairArgs |-> IF pairingService = <<>> THEN <<>>
                                 ELSE execPair(s, 1, pairingService[1].endpoint).hist[1].pairArgs ]
  /\ Untouched

\* getViewModel is evaluated.
GetViewModel(adbExists, startServer, devicesResult) ==
  /\ probe = NoProbe
  /\ probe' = [ fn |-> "getViewModel",
                args |-> <<adbExists, startServer, devicesResult>>,
                result |-> getViewModel(adbExists, execCmd(startServer),
                                        execCmd(devicesResult), qrPairing) ]
  /\ Untouched

\* resolveAdbPath is evaluated.
ResolveAdbPath(env, installed) ==
  /\ probe = NoProbe
  /\ probe' = [ fn |-> "resolveAdbPath", args |-> <<env, installed>>,
                result |-> resolveAdbPath(env, installed) ]
  /\ Untouched

\* execCmd is evaluated: the promise resolves with its result.
ExecCmd(outcome) ==
  /\ probe = NoProbe
  /\ probe' = [ fn |-> "execCmd", args |-> outcome, result |-> execCmd(outcome) ]
  /\ Untouched

\* connectByPairingCode is run.
ConnectByPairingCode(adbExists, server, endpointInput, codeInput, pairResult, connectInput, connectResult) ==
  /\ probe = NoProbe
  /\ probe' = [ fn |-> "connectByPairingCode",
                args |-> [ adbExists |-> adbExists, server |-> server,
                           endpointInput |-> endpointInput, codeInput |-> codeInput,
                           pairResult |-> pairResult, connectInput |-> connectInput,
                           connectResult |-> connectResult ],
                result |-> connectByPairingCode(adbExists, server, endpointInput, codeInput,
                                                pairResult, connectInput, connectResult) ]
  /\ Untouched

\* The listings of the connect-type services advertised at a moment.
AdvertisedConnectListings ==
  SeqsUpTo({ l \in ServiceLines : l[2] = ADB_TLS_CONNECT_SERVICE }, MaxListing)

\* The snapshot of connectByQrCode followed by one poll of
\* waitForConnectEndpoint made before the deadline: the snapshot discovery
\* call exits with `code` while `advertised` is being advertised (a call that
\* fails prints no listing), and the poll returns `poll`.
SnapshotThenConnectPoll(advertised, code, poll) ==
  /\ probe = NoProbe
  /\ LET snapshot == [code |-> code, stdout |-> IF code = 0 THEN advertised ELSE <<>>]
         known == knownConnectEndpointsOf(snapshot)
     IN  probe' = [ fn |-> "waitForConnectEndpoint",
                    advertised |-> { advertised[i][3] : i \in 1..Len(advertised) },
                    snapshot |-> snapshot,
                    poll |-> poll,
                    result |-> findFreshService(listMdnsServices(poll), known) ]
  /\ Untouched

ExecuteCommand(command, a) ==
  /\ probe = NoProbe
  /\ probe' = [ fn |-> "executeCommand", command |-> command, args |-> a,
                result |-> executeCommand(command, a) ]
  /\ Untouched

FnNext ==
  \/ /\ probe = NoProbe
     /\ \E version \in ExecOutcomes, bare \in ExecOutcomes : CommandExists(version, bare)
  \/ /\ probe = NoProbe
     /\ \E listing \in DeviceListings, gap \in Gaps, eol \in Eols :
          ParseAdbDevices(listing, gap, eol)
  \/ /\ probe = NoProbe
     /\ \E listing \in MdnsListings, gap \in Gaps, eol \in Eols :
          ParseMdnsServices(listing, gap, eol)
  \/ /\ probe = NoProbe
     /\ \E args \in RandomArgs, b \in 0..255, step \in ByteSteps :
          RandomFromAlphabet(args[1], args[2], RandomBytes(b, step, args[1]))
  \/ /\ probe = NoProbe
     /\ \E b \in 0..255, step \in ByteSteps :
          GenerateCredentials(RandomBytes(b, step, NAME_LENGTH),
                              RandomBytes(b, step, CODE_LENGTH))
  \/ /\ probe = NoProbe
     /\ \E startServer \in StartServerOutcomes, devicesResult \in DevicesOutcomes :
          GetViewModel(TRUE, startServer, devicesResult)
  \/ /\ probe = NoProbe
     /\ \E startServer \in {CHOOSE o \in StartServerOutcomes : TRUE},
           devicesResult \in {CHOOSE o \in DevicesOutcomes : TRUE} :
          GetViewModel(FALSE, startServer, devicesResult)
  \/ /\ probe = NoProbe
     /\ \E env \in Environments, installed \in InstalledRoots :
          ResolveAdbPath(env, installed)
  \/ /\ probe = NoProbe
     /\ \E outcome \in ExecCmdOutcomes : ExecCmd(outcome)
  \/ /\ probe = NoProbe
     /\ \E endpointInput \in UserInputs(TypedEndpoints), codeInput \in UserInputs(TypedCodes),
           pairResult \in AdbResults, connectInput \in UserInputs(TypedEndpoints),
           connectResult \in AdbResults :
          ConnectByPairingCode(TRUE, CHOOSE r \in AdbResults : r.code = 0,
                               endpointInput, codeInput, pairResult, connectInput, connectResult)
  \/ /\ probe = NoProbe
     /\ \E adbExists \in BOOLEAN, server \in AdbResults :
          LET typed == [kind |-> "type", text |-> <<"192.168.1.5", COLON, "37001">>]
              code == [kind |-> "type", text |-> <<"123456">>]
              ok == CHOOSE r \in AdbResults : r.code = 0
          IN  ConnectByPairingCode(adbExists, server, typed, code, ok, typed, ok)
  \/ /\ probe = NoProbe
     /\ \E advertised \in AdvertisedConnectListings, code \in ExitCodes, poll \in MdnsResults :
          SnapshotThenConnectPoll(advertised, code, poll)
  \/ /\ probe = NoProbe
     /\ \E command \in ConnectCommands, a \in CommandInputs : ExecuteCommand(command, a)

FnSpec == Init /\ [][FnNext]_vars

\* ------------------------------------------------------ the view provider
\* postState is `await getViewModel()` followed by `await postMessage(...)`.
\* getViewModel reads this.qrPairing in its return statement, after its last
\* await; the continuation of postState runs in the same turn of the event
\* loop, so the read and the post are one step. The webview takes the
\* messages in the order of the postMessage calls.

NoMessage == [type |-> "none"]

\* resolveWebviewView: the view is kept and a first postState call is made.
ResolveWebviewView ==
  /\ view = <<>>
  /\ posting < MaxPosts
  /\ view' = << [received |-> NoMessage] >>
  /\ posting' = posting + 1
  /\ fired' = 0
  /\ UNCHANGED <<pc, qrSession, qrPairing, cancelled, loc, hist, probe>>

\* onMessage with a message of type "ready": a postState call is made.
OnReadyMessage ==
  /\ view # <<>>
  /\ posting < MaxPosts
  /\ posting' = posting + 1
  /\ fired' = 0
  /\ UNCHANGED <<pc, qrSession, qrPairing, cancelled, loc, hist, probe, view>>

afterGetViewModel_Refreshes(s) == refresh(s)

\* The state of the controller after a getViewModel call has run: the call
\* assigns no field and fires no event.
afterGetViewModel(s) == s

\* A postState call resumes: getViewModel has made its last external call,
\* builds the model and returns it, and postState posts it to the webview.
PostStateReturn(adbExists, startServer, devicesResult) ==
  /\ view # <<>>
  /\ posting > 0
  /\ LET s == afterGetViewModel(Enter)
         model == getViewModel(adbExists, execCmd(startServer), execCmd(devicesResult),
                               s.qrPairing)
     IN  /\ posting - 1 + s.fired <= MaxPosts
         /\ pc' = s.pc
         /\ qrSession' = s.qrSession
         /\ qrPairing' = s.qrPairing
         /\ cancelled' = s.cancelled
         /\ loc' = s.loc
         /\ hist' = s.hist
         /\ fired' = s.fired
         /\ probe' = probe
         /\ view' = << [received |-> [type |-> "state", payload |-> model]] >>
         /\ posting' = posting - 1 + s.fired

\* The last external calls of a getViewModel call return: the tool is found
\* or not, and adb answers.
PostStateResume ==
  \E adbExists \in BOOLEAN :
    PostStateReturn(adbExists, CHOOSE o \in StartServerOutcomes : o.error = "none",
                    CHOOSE o \in DevicesOutcomes : o.error = "none")

\* One connectByQrCode call at a time, the cancel button of the webview, and
\* the view provider.
ViewNext ==
  \/ \E c \in LiveCalls : Invoke(c)
  \/ \E c \in LiveCalls : Resume(c)
  \/ CancelQr
  \/ Tick
  \/ ResolveWebviewView
  \/ OnReadyMessage
  \/ PostStateResume

ViewSpec == Init /\ [][ViewNext]_vars


\* ================================================================ claims
\* A session is active when the controller holds it and it is not cancelled.
Active(c) == qrSession = c /\ ~cancelled[c]

\* The session of call c exists and its flow has not returned.
Running(c) == hist[c].created /\ pc[c] # "done"

ScanPhase == {"snapshot", "scanPoll", "scanSleep"}

\* The connect-type lines of a discovery result, in listing order.
ConnectLinesOf(result) ==
  IF result.code # 0 THEN <<>>
  ELSE SelectSeq(result.stdout,
                 LAMBDA l : Len(l) >= 3 /\ l[2] = ADB_TLS_CONNECT_SERVICE)

\* The endpoint of the first connect-type line that is not in `known`.
FirstNewEndpoint(result, known) ==
  LET lines == ConnectLinesOf(result)
      new == { i \in 1..Len(lines) : lines[i][3] \notin known }
  IN  IF new = {} THEN Undefined
      ELSE lines[CHOOSE i \in new : \A j \in new : i <= j][3]

\* C1: at most one session is active at any time, whatever the interleaving
\* of connectByQrCode and cancelQrPairing calls.
AtMostOneActiveSession ==
  Cardinality({ c \in Calls : isQrSessionActive(State, c) }) <= 1

\* C1, its case: two sessions whose flows are both running and neither of
\* which is cancelled, one of them held.
TwoUncancelledSessionsRunning ==
  \E c, d \in Calls :
    /\ c # d
    /\ Running(c) /\ Running(d)
    /\ ~cancelled[c] /\ ~cancelled[d]
    /\ qrSession = d

\* C2: when a call that was invoked while a session was active publishes its
\* session, the session the controller held until then has its cancelled flag
\* set, and exactly one session is active afterwards.
PriorSessionCancelledBeforePublish ==
  [][ \A c \in Calls :
        (pc[c] = "resolveAdb" /\ pc'[c] = "snapshot" /\ hist[c].invokedWhileActive)
          => /\ qrSession # NoSession => cancelled[qrSession]
             /\ Cardinality({ d \in Calls : qrSession' = d /\ ~cancelled'[d] }) = 1 ]_vars

\* C3: a session cancelled while it waits for the scan never invokes pair:
\* from there its flow only stays in the scan phase or returns.
CancelledWhileScanningNeverPairs ==
  [][ \A c \in Calls :
        (cancelled[c] /\ pc[c] \in ScanPhase)
          => /\ pc'[c] \in ScanPhase \cup {"done"}
             /\ hist'[c].pairArgs = <<>> ]_vars

\* C3, its case: the flow of a cancelled session has returned without a pair
\* invocation and without a message.
CancelledSessionReturnedUnpaired ==
  \E c \in Calls :
    /\ pc[c] = "done" /\ hist[c].created /\ cancelled[c]
    /\ hist[c].pairArgs = <<>> /\ hist[c].shown = {}

\* C4: when the scan loop of an active session finds the scan timeout
\* elapsed, the session ends timed out: the retry warning is shown, the
\* published state is cleared and pair has not been invoked.
ScanTimeoutEndsSession ==
  [][ \A c \in Calls :
        ( /\ pc[c] = "scanSleep" /\ pc'[c] # "scanSleep"
          /\ loc[c].elapsed >= QR_SCAN_TIMEOUT_MS
          /\ Active(c) )
          => /\ pc'[c] = "done"
             /\ MSG_TIMED_OUT \in hist'[c].shown
             /\ hist'[c].pairArgs = <<>>
             /\ qrPairing' = <<>> ]_vars

\* C4, its case: a session has ended with the timed-out warning.
SessionTimedOut ==
  \E c \in Calls :
    /\ pc[c] = "done" /\ MSG_TIMED_OUT \in hist[c].shown
    /\ hist[c].pairArgs = <<>> /\ ~cancelled[c]

\* C5: in the state right after cancelQrPairing has run (called by the view
\* or by connectByQrCode), the held session is cancelled and no pairing state
\* is published.
CancelIsSynchronous ==
  [][ ( \/ CancelQr
        \/ \E c \in { d \in Calls : pc[d] = "ensureServer" } :
             qrSession # NoSession /\ EnsureServerReturn(c, 0) )
        => /\ qrSession' = qrSession
           /\ qrSession' # NoSession => cancelled'[qrSession']
           /\ qrPairing' = <<>> ]_vars

\* C5, its case: the held session is cancelled and unpublished while its flow
\* is still suspended in `adb pair`.
CancelledWhilePairInFlight ==
  \E c \in Calls :
    qrSession = c /\ cancelled[c] /\ pc[c] = "pair" /\ qrPairing = <<>>

\* C6: when a poll made before the discovery deadline returns to an active
\* session a listing with a connect-type endpoint outside the snapshot, the
\* flow goes on to connect with the first such endpoint in listing order; and
\* `adb connect` is invoked with the endpoint the flow resolved.
ConnectsToFirstNewEndpoint ==
  [][ /\ \A c \in { d \in Calls : pc[d] = "connectPoll" /\ Active(d) }, r \in MdnsResults :
           ( /\ FirstNewEndpoint(r, loc[c].knownConnectEndpoints) # Undefined
             /\ ConnectPollReturn(c, r) )
             => /\ pc'[c] = "connectResolve"
                /\ loc'[c].connectEndpoint =
                     FirstNewEndpoint(r, loc[c].knownConnectEndpoints)
                /\ loc'[c].connectEndpoint \notin loc'[c].knownConnectEndpoints
      /\ \A c \in Calls :
           (pc[c] = "connectResolve" /\ pc'[c] # "connectResolve")
             => /\ pc'[c] = "connect"
                /\ hist'[c].connectArgs = <<loc[c].connectEndpoint>>
      /\ \A c \in Calls :
           (hist'[c].connectVia = "fresh" /\ hist'[c].connectArgs # <<>>)
             => hist'[c].connectArgs[1] \notin loc'[c].knownConnectEndpoints ]_vars

\* C6, its case: with one endpoint in the snapshot, connect has been invoked
\* with the other one, found by a poll before the deadline.
ConnectedToNewEndpoint ==
  \E c \in Calls :
    /\ pc[c] = "connect" /\ hist[c].connectVia = "fresh"
    /\ Cardinality(loc[c].knownConnectEndpoints) = 1
    /\ Len(hist[c].connectArgs) = 1
    /\ hist[c].connectArgs[1] \notin loc[c].knownConnectEndpoints

\* C7: when `adb pair` exits non-zero for an active session the flow ends
\* there: the error is shown, the published state is cleared, pair has been
\* invoked once, and neither connect discovery nor connect is invoked; and no
\* session ever invokes pair twice.
PairFailureAborts ==
  [][ /\ \A c \in { d \in Calls : pc[d] = "pair" /\ Active(d) }, code \in ExitCodes \ {0} :
           PairReturn(c, code)
             => /\ pc'[c] = "done"
                /\ MSG_PAIR_FAILED \in hist'[c].shown
                /\ Len(hist'[c].pairArgs) = 1
                /\ ~hist'[c].connectDiscovery
                /\ hist'[c].connectArgs = <<>>
                /\ qrPairing' = <<>>
      /\ \A c \in Calls : Len(hist'[c].pairArgs) <= 1 ]_vars

\* C7, its case: a session has ended on a failed pair.
SessionEndedOnPairFailure ==
  \E c \in Calls :
    /\ pc[c] = "done" /\ MSG_PAIR_FAILED \in hist[c].shown
    /\ Len(hist[c].pairArgs) = 1 /\ hist[c].connectArgs = <<>>

\* C8: when the final discovery listing returns to an active session, the
\* flow goes on to connect exactly when the listing has one connect-type
\* service, and then with its endpoint; otherwise it ends with the 'Device
\* paired' information, no error, and no connect invocation.
FinalListingDecides ==
  [][ \A c \in { d \in Calls : pc[d] = "connectFinal" /\ Active(d) }, r \in MdnsResults :
        ConnectFinalReturn(c, r)
          => IF Len(ConnectLinesOf(r)) = 1
               THEN /\ pc'[c] = "connectResolve"
                    /\ loc'[c].connectEndpoint = ConnectLinesOf(r)[1][3]
               ELSE /\ pc'[c] = "done"
                    /\ MSG_PAIRED \in hist'[c].shown
                    /\ hist'[c].shown \cap {MSG_PAIR_FAILED, MSG_CONNECT_FAILED, MSG_TIMED_OUT} = {}
                    /\ hist'[c].connectArgs = <<>> ]_vars

\* C8, its case: connect has been invoked with the only connect-type endpoint
\* of the final listing, an endpoint of the snapshot.
ConnectedToOnlyEndpoint ==
  \E c \in Calls :
    /\ pc[c] = "connect" /\ hist[c].connectVia = "final"
    /\ hist[c].connectArgs[1] \in loc[c].knownConnectEndpoints

\* C9: when `adb connect` has returned, with whatever exit code, the published
\* pairing state is cleared and a change notification is fired.
ConnectClearsAndRefreshes ==
  [][ \A c \in { d \in Calls : pc[d] = "connect" }, code \in ExitCodes :
        ConnectReturn(c, code) => (qrPairing' = <<>> /\ fired' >= 1) ]_vars

\* C9, its case: a failed connect has returned.
ConnectFailedAndCleared ==
  \E c \in Calls :
    /\ pc[c] = "done" /\ MSG_CONNECT_FAILED \in hist[c].shown
    /\ qrPairing = <<>> /\ fired >= 1

\* C10: when a call that created a session has returned and no newer session
\* has been created, the controller holds no session and publishes none.
ReturnLeavesNoSession ==
  \A c \in Calls :
    (pc[c] = "done" /\ hist[c].created /\ ~hist[c].superseded)
      => (qrSession = NoSession /\ qrPairing = <<>>)

\* C10, its case: a cancelled session has returned.
CancelledSessionReturned ==
  \E c \in Calls :
    pc[c] = "done" /\ hist[c].created /\ ~hist[c].superseded /\ cancelled[c]

\* C11: when every external call returns and the clock advances, the flow of
\* every session that was created returns, and the controller does not hold
\* the session then.
SessionEventuallyEnds ==
  \A c \in Calls :
    (hist[c].created /\ pc[c] # "done") ~> (pc[c] = "done" /\ qrSession # c)

\* C11, its case: a session has ended by completion, its connect succeeded.
SessionCompleted ==
  \E c \in Calls :
    /\ pc[c] = "done" /\ hist[c].created /\ qrSession # c
    /\ MSG_CONNECT_OK \in hist[c].shown

\* The flow of the session of call c is suspended at one of its awaits.
Suspended(c) == hist[c].created /\ pc[c] \notin {"idle", "done"}

\* C12: once a session is cancelled its flow starts no further `adb pair` and
\* no further `adb connect` invocation, whichever await it is suspended at.
CancelledStartsNoInvocation ==
  [][ \A c \in Calls :
        (Suspended(c) /\ cancelled[c])
          => /\ Len(hist'[c].pairArgs) <= Len(hist[c].pairArgs)
             /\ Len(hist'[c].connectArgs) <= Len(hist[c].connectArgs) ]_vars

\* C13: a step of the flow of a session that is cancelled or no longer held
\* leaves the published pairing state as it is.
StaleSessionKeepsPublishedState ==
  [][ \A c \in Calls :
        (Suspended(c) /\ ~Active(c) /\ pc'[c] # pc[c])
          => qrPairing' = qrPairing ]_vars

\* C14: once a session is cancelled its flow shows no further message.
CancelledSessionIsSilent ==
  [][ \A c \in Calls :
        (Suspended(c) /\ cancelled[c]) => hist'[c].shown = hist[c].shown ]_vars

\* The awaits inside waitForPairingEndpoint and waitForConnectEndpoint.
PollLoop == {"scanPoll", "scanSleep", "connectPoll", "connectSleep", "connectFinal"}

\* C15: at most one session is inside a discovery poll loop.
OnePollLoopAtATime ==
  Cardinality({ c \in Calls : pc[c] \in PollLoop }) <= 1

\* C16: at most one session has an `adb pair` or `adb connect` call in flight.
OneInvocationInFlight ==
  Cardinality({ c \in Calls : pc[c] \in {"pair", "connect"} }) <= 1

\* The place of an await in the order of a session's external operations:
\* snapshot discovery, scan polls, pair, connect-discovery polls, connect.
Rank(p) ==
  CASE p = "snapshot" -> 1
    [] p \in {"scanPoll", "scanSleep"} -> 2
    [] p = "pair" -> 3
    [] p \in {"connectPoll", "connectSleep", "connectFinal"} -> 4
    [] p \in {"connectResolve", "connect"} -> 5
    [] OTHER -> 6

\* The endpoint of the first pairing-type line of a discovery result whose
\* instance is `name`.
MatchingEndpoint(result, name) ==
  LET lines == IF result.code # 0 THEN <<>>
               ELSE SelectSeq(result.stdout,
                              LAMBDA l : /\ Len(l) >= 3 /\ l[1] = name
                                         /\ l[2] = ADB_TLS_PAIRING_SERVICE)
  IN  IF lines = <<>> THEN Undefined ELSE lines[1][3]

\* C17: the flow of a session moves through its operations in order, one
\* step at a time; `adb pair` is started only by the return of a scan poll
\* that lists the session's pairing service, with that service's endpoint;
\* connect discovery is started only by `adb pair` returning 0, and
\* `adb connect` only after that.
OperationsInOrder ==
  [][ /\ \A c \in Calls :
           (Suspended(c) /\ pc'[c] # pc[c]) => Rank(pc'[c]) >= Rank(pc[c])
      /\ \A c \in { d \in Calls : pc[d] # "pair" /\ pc'[d] = "pair" } :
           /\ pc[c] = "scanPoll"
           /\ \E r \in MdnsResults :
                /\ MatchingEndpoint(r, loc[c].pairServiceName) # Undefined
                /\ ScanPollReturn(c, r)
                /\ hist'[c].pairArgs =
                     << <<MatchingEndpoint(r, loc[c].pairServiceName), loc[c].pairCode>> >>
      /\ \A c \in { d \in Calls : Rank(pc[d]) < 4 /\ Rank(pc'[d]) \in {4, 5} } :
           pc[c] = "pair" /\ PairReturn(c, 0)
      /\ \A c \in { d \in Calls : pc[d] # "connect" /\ pc'[d] = "connect" } :
           /\ pc[c] = "connectResolve"
           /\ MSG_PAIR_OK \in hist[c].shown /\ hist[c].connectDiscovery ]_vars

\* C17, its case: a session has gone through all its operations and
\* `adb connect` is in flight.
SessionReachedConnectInOrder ==
  \E c \in Calls :
    /\ pc[c] = "connect" /\ hist[c].connectDiscovery
    /\ MSG_PAIR_OK \in hist[c].shown
    /\ hist[c].pairArgs = << <<PairingEndpointOf(c), CodeOf(c)>> >>

\* C18, as claimed, for the connect-discovery phase: no connect-discovery
\* poll starts once CONNECT_DISCOVERY_TIMEOUT_MS have passed since the
\* session was created.
ConnectDeadlineFromSessionStart ==
  [][ \A c \in Calls :
        (pc[c] # "connectPoll" /\ pc'[c] = "connectPoll")
          => hist[c].age < CONNECT_DISCOVERY_TIMEOUT_MS ]_vars

\* C18, amended: each poll loop measures its deadline from its own start: a
\* scan poll starts only while less than QR_SCAN_TIMEOUT_MS have passed since
\* waitForPairingEndpoint was entered, a connect-discovery poll only while
\* less than CONNECT_DISCOVERY_TIMEOUT_MS have passed since
\* waitForConnectEndpoint was entered.
DeadlinesFromPhaseStart ==
  [][ \A c \in Calls :
        /\ (pc[c] # "scanPoll" /\ pc'[c] = "scanPoll")
             => loc'[c].elapsed < QR_SCAN_TIMEOUT_MS
        /\ (pc[c] # "connectPoll" /\ pc'[c] = "connectPoll")
             => loc'[c].elapsed < CONNECT_DISCOVERY_TIMEOUT_MS ]_vars

\* C18, its case: a connect-discovery poll is in flight, started within the
\* deadline of its phase, in a session older than that deadline.
ConnectPollInOldSession ==
  \E c \in Calls :
    /\ pc[c] = "connectPoll"
    /\ loc[c].elapsed < CONNECT_DISCOVERY_TIMEOUT_MS
    /\ hist[c].age >= CONNECT_DISCOVERY_TIMEOUT_MS

\* C19, as claimed: when the executable cannot be launched, with "version"
\* or without arguments, commandExists reports the tool as not present.
MissingToolIsNotPresent ==
  ( /\ probe.fn = "commandExists"
    /\ probe.args[1].error = "ENOENT" /\ probe.args[2].error = "ENOENT" )
    => probe.result = FALSE

\* The records the claim expects of a listing: one per device line, in order.
ExpectedDevices(listing) ==
  LET valid == SelectSeq(listing, LAMBDA line : line.kind = "valid")
      modelToken(kv) == SelectSeq(kv, LAMBDA token : token[1] = "model")
  IN  [ i \in 1..Len(valid) |->
          [ serial |-> valid[i].serial, state |-> valid[i].state,
            model |-> IF modelToken(valid[i].kv) = <<>> THEN Undefined
                      ELSE <<modelToken(valid[i].kv)[1][3]>> ] ]

\* C20: parseAdbDevices returns one record per device line of the listing, in
\* line order, with the line's serial, state and model, whatever blank or
\* one-token lines stand between them and whatever key:value tokens follow.
ParsesEveryDeviceLine ==
  probe.fn = "parseAdbDevices"
    => /\ Len(probe.result) = Len(ExpectedDevices(probe.args))
       /\ \A i \in 1..Len(probe.result) :
            /\ probe.result[i].serial = ExpectedDevices(probe.args)[i].serial
            /\ probe.result[i].state = ExpectedDevices(probe.args)[i].state
            /\ probe.result[i].model = ExpectedDevices(probe.args)[i].model

\* C20, its case: `ABC123 device model:Pixel6` after a line of one token
\* gives the one record ABC123, device, Pixel6.
ParsedPixel6AfterMalformedLine ==
  /\ probe.fn = "parseAdbDevices"
  /\ Len(probe.args) = 2 /\ probe.args[1].kind = "malformed"
  /\ probe.result = << [ serial |-> <<"ABC123">>, state |-> <<"device">>,
                         model |-> <<"Pixel6">>,
                         details |-> <<"model", COLON, "Pixel6">> ] >>

\* The records of the lines of a listing that have at least three tokens.
ExpectedServices(listing) ==
  LET long == SelectSeq(listing, LAMBDA tokens : Len(tokens) >= 3)
  IN  [ i \in 1..Len(long) |->
          [ instance |-> long[i][1], serviceType |-> long[i][2],
            endpoint |-> long[i][3] ] ]

\* C21: for every service-listing output parseMdnsServices returns exactly
\* one record per non-blank line with at least three white-space separated
\* tokens, in line order, whose instance, service type and endpoint are the
\* first, second and third token; lines with fewer tokens give no record.
ParsesEveryServiceLine ==
  probe.fn = "parseMdnsServices" =>
    /\ probe.result = ExpectedServices(probe.args)
    /\ Len(probe.result)
         = Cardinality({ i \in 1..Len(probe.args) : Len(probe.args[i]) >= 3 })

ParsedFourTokenLineAfterShortLine ==
  /\ probe.fn = "parseMdnsServices"
  /\ Len(probe.args) = 2
  /\ Len(probe.args[1]) = 2
  /\ Len(probe.args[2]) = 4
  /\ CR \in { probe.stdout[i] : i \in 1..Len(probe.stdout) }
  /\ probe.result = << [ instance |-> <<"adb-R58M">>,
                         serviceType |-> <<"_adb-tls-connect._tcp.">>,
                         endpoint |-> <<"192.168.1.5", COLON, "5555">> ] >>

Chars(str) == { str[i] : i \in 1..Len(str) }

Lowercase ==
  { "a", "b", "c", "d", "e", "f", "g", "h", "i", "j", "k", "l", "m", "n", "o",
    "p", "q", "r", "s", "t", "u", "v", "w", "x", "y", "z" }
Uppercase ==
  { "A", "B", "C", "D", "E", "F", "G", "H", "I", "J", "K", "L", "M", "N", "O",
    "P", "Q", "R", "S", "T", "U", "V", "W", "X", "Y", "Z" }
Digits == { "0", "1", "2", "3", "4", "5", "6", "7", "8", "9" }

\* C22: every payload the orchestrator generates has the form
\* WIFI:T:ADB;S:<serviceName>;P:<pairCode>;; built from the service name and
\* the pairing code that the session publishes, matches discovered services
\* against and passes to `adb pair`; reading the S: and P: fields of the
\* payload up to the next ';' gives back that service name and that code.
PayloadRoundTrips ==
  probe.fn = "connectByQrCode" =>
    LET name == probe.pairServiceName
        code == probe.pairCode
    IN  /\ probe.published.payload
             = <<"WIFI", COLON, "T", COLON, "ADB", SEMI, "S", COLON>> \o name
                 \o <<SEMI, "P", COLON>> \o code \o <<SEMI, SEMI>>
        /\ probe.published.pairServiceName = name
        /\ probe.published.pairCode = code
        /\ probe.read = [serviceName |-> name, pairCode |-> code]
        /\ probe.pairingService # <<>>
        /\ probe.pairArgs = << <<probe.pairingService[1].endpoint, code>> >>

PayloadWithTagLettersInCodeRead ==
  /\ probe.fn = "connectByQrCode"
  /\ {"S", "P"} \subseteq Chars(probe.pairCode)
  /\ probe.read.pairCode = probe.pairCode
  /\ probe.read.serviceName = probe.pairServiceName
  /\ Len(probe.pairArgs) = 1

\* C30: for every byte sequence of the random source randomFromAlphabet(length,
\* alphabet) returns exactly `length` characters, the i-th being the character
\* of `alphabet` at index (i-th byte mod alphabet length); hence the service
\* name is 'studio-' and 8 characters of a-z and 0-9, the pairing code is 12
\* characters of A-Z and 2-9 without I and O, and neither holds ';' or ':'.
RandomStringsFromAlphabet ==
  /\ probe.fn = "randomFromAlphabet" =>
       LET length == probe.args[1]
           alphabet == probe.args[2]
           bytes == probe.args[3]
       IN  /\ Len(probe.result) = length
           /\ \A i \in 1..length :
                /\ probe.result[i] \in Chars(alphabet)
                /\ \E k \in 0..(Len(alphabet) - 1) :
                     /\ (bytes[i] - k) % Len(alphabet) = 0
                     /\ probe.result[i] = alphabet[k + 1]
  /\ probe.fn = "connectByQrCode" =>
       /\ Len(probe.pairServiceName) = 1 + 8
       /\ probe.pairServiceName[1] = "studio-"
       /\ Chars(Tail(probe.pairServiceName)) \subseteq Lowercase \cup Digits
       /\ Len(probe.pairCode) = 12
       /\ Chars(probe.pairCode) \subseteq (Uppercase \cup Digits) \ {"I", "O", "0", "1"}
       /\ {SEMI, COLON} \cap (Chars(probe.pairServiceName) \cup Chars(probe.pairCode)) = {}

DrewLastCharacterFromByte255 ==
  /\ probe.fn = "randomFromAlphabet"
  /\ probe.args[1] = 12
  /\ probe.args[2] = CODE_ALPHABET
  /\ probe.args[3][12] = 255
  /\ probe.result[12] = "9"

\* A discovery call that exited non-zero after printing nothing or one line.
FailedMdnsResults ==
  { [code |-> 1, stdout |-> l] : l \in SeqsUpTo(ServiceLines, 1) }

\* C23: a service-discovery call that exits non-zero is treated like a
\* listing with no services: in both poll loops the session does not abort
\* and shows no error because of it, it sleeps for the poll interval and goes
\* on polling (until a service matches, the deadline passes or cancellation
\* is seen at the head of the loop).
FailedDiscoveryIsEmptyListing ==
  [][ \A c \in { d \in Calls : pc[d] \in {"scanPoll", "connectPoll"} /\ pc'[d] # pc[d] } :
        LET sleeps == /\ pc'[c] = (IF pc[c] = "scanPoll" THEN "scanSleep" ELSE "connectSleep")
                      /\ loc'[c] = [loc[c] EXCEPT !.sleepLeft = POLL_INTERVAL_MS]
                      /\ hist'[c].shown = hist[c].shown
                      /\ hist'[c].pairArgs = hist[c].pairArgs
                      /\ hist'[c].connectArgs = hist[c].connectArgs
                      /\ qrPairing' = qrPairing
                      /\ qrSession' = qrSession
                      /\ cancelled'[c] = cancelled[c]
                      /\ fired' = 0
        IN  \/ sleeps
            \/ \A r \in FailedMdnsResults :
                 ~(ScanPollReturn(c, r) \/ ConnectPollReturn(c, r)) ]_vars

SleepingAfterFailedDiscovery ==
  \E c \in Calls :
    /\ hist[c].discoveryFailed
    /\ pc[c] = "connectSleep"
    /\ Active(c)
    /\ hist[c].shown = {MSG_PAIR_OK}

\* C24: device enumeration succeeds exactly when `adb start-server` and
\* `adb devices -l` both exit 0: then getViewModel reports the ready status
\* and the parsed device records; when either exits non-zero it reports a
\* failure status of tone error whose description is the cleaned,
\* white-space-collapsed stderr or stdout of a failing call (when a failing
\* call printed anything), and it lists no device records.
EnumerationFailureNamesFailingCall ==
  (probe.fn = "getViewModel" /\ probe.args[1]) =>
    LET startServer == probe.args[2]
        devicesResult == probe.args[3]
        ok == startServer.error = "none" /\ devicesResult.error = "none"
        status == probe.result.sections[1].items[1]
        deviceItems == probe.result.sections[2].items
        expected == parseAdbDevices(devicesResult.stdout)
        failing == { r \in {startServer, devicesResult} : r.error # "none" }
        reasons == ({ cleanOutput(r.stderr) : r \in failing }
                      \cup { cleanOutput(r.stdout) : r \in failing }) \ { <<>> }
    IN  IF ok
          THEN /\ status.label = "adb ready"
               /\ status.tone = "ok"
               /\ IF expected = <<>> THEN deviceItems = << NoDevicesItem >>
                  ELSE deviceItems = [ i \in 1..Len(expected) |-> deviceItem(expected[i]) ]
          ELSE /\ status.label = "adb failed"
               /\ status.tone = "error"
               /\ reasons # {} => status.description \in reasons
               /\ deviceItems = << NoDevicesItem >>

\* C25: resolveAdbPath returns <root>/platform-tools/<adb executable> for the
\* first root, in the order ANDROID_SDK_ROOT, ANDROID_HOME, setting
\* android.androidSdkPath, setting flutter.androidSdkPath, and on macOS only
\* the default Library/Android/sdk under HOME, for which that file exists;
\* unset and empty roots are skipped; when there is none it returns the bare
\* name 'adb'; it never returns null.
ResolvesFirstInstalledRoot ==
  probe.fn = "resolveAdbPath" =>
    LET env == probe.args[1]
        installed == probe.args[2]
        exe == IF env.platform = "win32" THEN "adb.exe" ELSE "adb"
        roots == << env.ANDROID_SDK_ROOT, env.ANDROID_HOME, env.androidSdkPath,
                    env.flutterSdkPath,
                    IF env.platform = "darwin" THEN env.HOME \o <<"Library/Android/sdk">>
                    ELSE <<>> >>
        usable == { i \in 1..5 : roots[i] # <<>> /\ roots[i] \in installed }
    IN  /\ probe.result # Undefined
        /\ usable = {} => probe.result = <<"adb">>
        /\ \A i \in usable :
             (\A j \in usable : i <= j) =>
               probe.result = roots[i] \o <<"platform-tools", exe>>

ResolvedFlutterSettingPastMissingRoots ==
  /\ probe.fn = "resolveAdbPath"
  /\ probe.args[1].platform = "darwin"
  /\ probe.args[1].ANDROID_SDK_ROOT = <<"/sdkA">>
  /\ probe.args[1].ANDROID_HOME = <<>>
  /\ probe.args[1].androidSdkPath = <<>>
  /\ probe.args[1].flutterSdkPath = <<"/sdkB">>
  /\ probe.args[2] = { <<"/sdkB">>, <<"/Users/dev", "Library/Android/sdk">>, <<>> }
  /\ probe.result = <<"/sdkB", "platform-tools", "adb">>

\* C26: execCmd always resolves: with code 0 exactly when the process ran
\* without error; on an error the code is non-zero, the numeric exit code of
\* the process when that is a non-zero number and 1 otherwise (a failed
\* launch included).
ExecCmdResolvesWithCode ==
  probe.fn = "execCmd" =>
    LET outcome == probe.args
        r == probe.result
    IN  /\ DOMAIN r = {"stdout", "stderr", "code"}
        /\ r.code = 0 <=> outcome.error = "none"
        /\ (outcome.error = "exit" /\ outcome.exit # 0) => r.code = outcome.exit
        /\ outcome.error \in {"ENOENT", "signal"} => r.code = 1
        /\ r.stdout = outcome.stdout /\ r.stderr = outcome.stderr

FailedLaunchResolvedWithOne ==
  /\ probe.fn = "execCmd"
  /\ probe.args.error = "ENOENT"
  /\ probe.result = [stdout |-> <<>>, stderr |-> <<>>, code |-> 1]

NonBlankTrimmed(str) == str # <<>> /\ Trim(str) = str

\* C27: in the connect-by-pairing-code flow `adb pair` is run only with a
\* non-empty trimmed endpoint and a non-empty trimmed code, and `adb connect`
\* only after that pair exited 0 and the user gave a non-empty connect
\* endpoint; when pair exits non-zero or a prompt is dismissed connect is
\* never run, and a pair failure is shown as an error.
PairingCodeFlowGuardsItsCommands ==
  probe.fn = "connectByPairingCode" =>
    LET a == probe.args
        ran == probe.result.ran
        shown == probe.result.shown
        pairs == { i \in 1..Len(ran) : ran[i][1] = "pair" }
        connects == { i \in 1..Len(ran) : ran[i][1] = "connect" }
        dismissed(input) == input.kind = "dismiss"
    IN  /\ \A i \in pairs : NonBlankTrimmed(ran[i][2]) /\ NonBlankTrimmed(ran[i][3])
        /\ \A i \in connects :
             /\ \E j \in pairs : j < i
             /\ a.pairResult.code = 0
             /\ ~dismissed(a.connectInput)
             /\ NonBlankTrimmed(ran[i][2])
        /\ Cardinality(pairs) <= 1 /\ Cardinality(connects) <= 1
        /\ ( \/ dismissed(a.endpointInput) \/ dismissed(a.codeInput)
             \/ dismissed(a.connectInput)
             \/ (pairs # {} /\ a.pairResult.code # 0) ) => connects = {}
        /\ (pairs # {} /\ a.pairResult.code # 0) =>
             \E k \in 1..Len(shown) :
               /\ shown[k].kind = "error"
               /\ shown[k].text[1] = MSG_PAIR_FAILED
               /\ LET reason == OrElse(cleanOutput(a.pairResult.stderr),
                                       cleanOutput(a.pairResult.stdout))
                  IN  reason # <<>> => shown[k].text = <<MSG_PAIR_FAILED, COLON, SP>> \o reason

PairedThenConnectedToSuggestedEndpoint ==
  /\ probe.fn = "connectByPairingCode"
  /\ probe.args.endpointInput.text = <<SP, "192.168.1.5", COLON, "37001", SP>>
  /\ probe.args.connectInput.kind = "keep"
  /\ probe.result.ran = << <<"pair", <<"192.168.1.5", COLON, "37001">>, <<"123456">> >>,
                           <<"connect", <<"192.168.1.5", COLON, "5555">> >> >>

\* Listings that hold no pairing service of the session of call c but look
\* like one: a connect-type service under the session's instance name, and
\* pairing-type services under other instance names.
DecoyLines(c) ==
  { <<NameOf(c), ADB_TLS_CONNECT_SERVICE, PairingEndpointOf(c)>>,
    << <<"studio-", 0>>, ADB_TLS_PAIRING_SERVICE, PairingEndpointOf(c) >> }
    \cup { <<NameOf(d), ADB_TLS_PAIRING_SERVICE, PairingEndpointOf(d)>> : d \in Calls \ {c} }

DecoyResults(c) ==
  { [code |-> 0, stdout |-> l] : l \in SeqsUpTo(DecoyLines(c), MaxListing) \ { <<>> } }

\* C28: `adb pair` is run only with the endpoint of a discovered service
\* whose instance name is the generated service name of the session and
\* whose service type holds the pairing marker, and with the session's own
\* pairing code; a connect-type service under the same instance name and a
\* pairing-type service under another instance name never start a pairing.
PairsOnlyWithOwnPairingService ==
  [][ /\ \A c \in { d \in Calls : pc'[d] # "done" /\ pc[d] # "done"
                                   /\ hist'[d].pairArgs # hist[d].pairArgs } :
           /\ pc[c] = "scanPoll"
           /\ \E r \in MdnsResults :
                /\ ScanPollReturn(c, r)
                /\ \E i \in 1..Len(r.stdout) :
                     /\ r.stdout[i][1] = loc[c].pairServiceName
                     /\ loc[c].pairServiceName = NameOf(c)
                     /\ r.stdout[i][2] = ADB_TLS_PAIRING_SERVICE
                     /\ hist'[c].pairArgs
                          = Append(hist[c].pairArgs, <<r.stdout[i][3], CodeOf(c)>>)
      /\ \A c \in { d \in Calls : pc[d] = "scanPoll" /\ pc'[d] # "scanPoll" } :
           \/ pc'[c] = "scanSleep" /\ hist'[c].pairArgs = hist[c].pairArgs
           \/ \A r \in DecoyResults(c) : ~ScanPollReturn(c, r) ]_vars

PairingWithOwnServiceAmongOthers ==
  \E c \in Calls :
    /\ pc[c] = "pair"
    /\ Active(c)
    /\ hist[c].pairArgs = << <<PairingEndpointOf(c), CodeOf(c)>> >>
    /\ \E d \in Calls \ {c} : pc[d] = "scanSleep" /\ hist[d].pairArgs = <<>>

\* C29: on every scan-poll tick of an active session, before the discovery
\* call, the status message becomes 'Waiting for phone scan... Ns' with
\* N = ceil(remaining ms / 1000), an integer with 1 <= N <= 90 that never
\* increases from one tick of the session to the next.
ScanTickShowsCountdown ==
  [][ \A c \in { d \in Calls : pc'[d] = "scanPoll" /\ pc[d] \in {"snapshot", "scanSleep"} } :
        /\ qrPairing' # <<>>
        /\ LET message == qrPairing'[1].statusMessage
               remaining == QR_SCAN_TIMEOUT_MS - loc'[c].elapsed
           IN  /\ message.text = ST_WAITING
               /\ message.n * 1000 >= remaining
               /\ (message.n - 1) * 1000 < remaining
               /\ 1 <= message.n /\ message.n <= 90
               /\ ( /\ qrPairing # <<>>
                    /\ qrPairing[1].pairServiceName = loc[c].pairServiceName
                    /\ qrPairing[1].statusMessage.text = ST_WAITING )
                    => message.n <= qrPairing[1].statusMessage.n ]_vars


\* C31: every mutation of the published pairing state (a publish, a status
\* update, a clear) fires the change event within the same synchronous step:
\* a step that changes qrPairing has called onDidChangeEmitter.fire() at least
\* once before it yields.
EveryPairingMutationNotifies == [][qrPairing' # qrPairing => fired' >= 1]_vars

\* A status update has just been made and notified: the scan was detected,
\* the status replaced and `adb pair` started.
StatusUpdatedAndNotified ==
  \E c \in Calls :
    /\ pc[c] = "pair"
    /\ qrPairing # <<>>
    /\ qrPairing[1].statusMessage = Status(ST_DETECTED, 0, Undefined)
    /\ fired >= 1


\* C33: in every reachable state the pairing state is published exactly when
\* the controller holds a session that is not cancelled and whose flow has not
\* returned, and then it carries the service name, the pairing code and the
\* payload of that held session.
PublishedExactlyForHeldLiveSession ==
  /\ (qrPairing # <<>>) <=>
       (/\ qrSession # NoSession
        /\ ~cancelled[qrSession]
        /\ pc[qrSession] \notin {"idle", "done"})
  /\ qrPairing # <<>> =>
       /\ qrPairing[1].pairServiceName = NameOf(qrSession)
       /\ qrPairing[1].pairCode = CodeOf(qrSession)
       /\ qrPairing[1].payload = qrPayload(NameOf(qrSession), CodeOf(qrSession))


\* C34: a session's flow releases the controller's session reference only if
\* the reference is still its own: when the flow of session c returns while
\* another session d is held, the controller keeps holding d, and d stays
\* active if it was.
ReturnKeepsNewerSession ==
  [][\A c \in Calls : \A d \in Calls \ {c} :
       (/\ hist[c].created
        /\ pc[c] \notin {"idle", "done"}
        /\ pc'[c] = "done"
        /\ qrSession = d)
       => /\ qrSession' = d
          /\ (~cancelled[d] => ~cancelled'[d])]_vars

\* The flow of a superseded session has returned and the newer session is
\* still held and active.
OlderFlowReturnedNewerHeld ==
  \E c \in Calls : \E d \in Calls \ {c} :
    /\ pc[c] = "done"
    /\ hist[c].created
    /\ hist[c].superseded
    /\ Active(d)
    /\ pc[d] \notin {"idle", "done"}


StatusUpdateChangesOnlyStatus ==
  [][LET publishes == \E c \in Calls : pc[c] = "resolveAdb" /\ pc'[c] = "snapshot"
     IN  /\ (qrPairing # <<>> /\ qrPairing' # <<>> /\ ~publishes) =>
               /\ qrPairing'[1].pairServiceName = qrPairing[1].pairServiceName
               /\ qrPairing'[1].pairCode = qrPairing[1].pairCode
               /\ qrPairing'[1].payload = qrPairing[1].payload
         /\ qrPairing' # <<>> =>
               \E c \in Calls :
                 /\ qrPairing'[1].pairServiceName = NameOf(c)
                 /\ qrPairing'[1].pairCode = CodeOf(c)
                 /\ qrPairing'[1].payload = qrPayload(NameOf(c), CodeOf(c))
         /\ (qrPairing = <<>> /\ ~publishes) => qrPairing' = <<>>
         /\ \A c \in Calls :
              (/\ qrPairing = <<>>
               /\ pc'[c] # pc[c]
               /\ pc'[c] \in {"scanPoll", "pair", "connectPoll", "connectResolve"})
              => fired' = 0]_vars

\* An active session has detected the scan and started `adb pair` while
\* nothing was published: its status update changed nothing and notified
\* nobody.
StatusUpdateOnAbsentStateWasNoOp ==
  \E c \in Calls :
    /\ Active(c)
    /\ pc[c] = "pair"
    /\ qrPairing = <<>>
    /\ fired = 0


\* C37: a poll of the connect discovery made before the deadline never
\* selects a connect-type endpoint that was being advertised when the session
\* started, whatever the outcome of the snapshot discovery call, a non-zero
\* exit included.
PollSkipsEndpointsAdvertisedAtStart ==
  (probe.fn = "waitForConnectEndpoint" /\ probe.result # <<>>)
    => probe.result[1].endpoint \notin probe.advertised


\* C38: in every connect flow, started from its own command or from the
\* method picker, the change event is fired after the connect operation has
\* resolved: every `adb connect` a connect command runs is followed by a
\* refresh().
ConnectIsFollowedByNotification ==
  probe.fn = "executeCommand" =>
    LET ran == probe.result.ran
    IN  \A i \in 1..Len(ran) :
          ran[i][1] = "connect" => \E j \in (i + 1)..Len(ran) : ran[j] = <<"refresh">>


\* The awaits at which a discovery, pair or connect invocation is in flight.
InvocationInFlight == {"snapshot", "scanPoll", "pair", "connectPoll", "connectFinal", "connect"}

GetViewModelHasNoSideEffect ==
  [][PostStateResume =>
       /\ qrSession' = qrSession
       /\ qrPairing' = qrPairing
       /\ \A c \in Calls : pc[c] # "done" => cancelled'[c] = cancelled[c]
       /\ fired' = 0
       /\ posting' = posting - 1]_vars

\* A model holding the published pairing state has been posted to the webview
\* while the session runs, and no postState call is left in flight.
ModelPostedAndCycleAtRest ==
  /\ view # <<>>
  /\ view[1].received # NoMessage
  /\ qrPairing # <<>>
  /\ view[1].received.payload.qrPairing = qrPairing
  /\ posting = 0
  /\ fired = 0


\* C40: overlapping postState calls post their snapshots in the order in
\* which they read them: the snapshot a call posts is the pairing state the
\* controller holds at that moment, so the webview never receives a snapshot
\* older than one it already has, and once no postState call is left in
\* flight the last snapshot posted is the controller's current pairing state.
SnapshotsPostedInReadOrder ==
  [][/\ PostStateResume => view'[1].received.payload.qrPairing = qrPairing'
     /\ (view' # <<>> /\ posting' = 0 /\ view'[1].received # NoMessage)
          => view'[1].received.payload.qrPairing = qrPairing']_vars

====
